---- MODULE Spec2Model ----
(***************************************************************************)
(* A model of the SpotifySuite toolkit (lib/spotify.js, lib/csvProcessor.js *)
(* and the findTrackAlbumsCSV batch processor).                            *)
(*                                                                         *)
(* JavaScript strings are sequences of one-character strings; the value    *)
(* null/undefined of a string-valued field is the one-element sequence     *)
(* Null, which no real string equals.                                      *)
(***************************************************************************)
EXTENDS Integers, Sequences, FiniteSets, TLC

VARIABLES
    \* album finder (getTrackAlbumInformation / findEarliestAlbumBeforeYear)
    tracks,        \* items of the /search response (type=track)
    yearField,     \* the row's 'Release Year' column, a string
    earliest,      \* what findEarliestAlbumBeforeYear returned
    fpc,           \* "idle" | "ready" | "returned"
    \* sortAlbumsByReleaseYear
    albumInfo,     \* the array handed to sortAlbumsByReleaseYear
    sortedInfo,    \* the array it returned
    spc,           \* "idle" | "build" | "sorted"
    \* processAllRecords (batch enrichment)
    records,          \* the input rows
    enhancedRecords,  \* the output rows pushed so far
    recordIndex,      \* the loop index i of processAllRecords
    processedCount,
    foundCount,
    remoteCalls,      \* row indexes for which a search request was issued
    responses,        \* what each issued request came back with
    delays,           \* inter-row delays awaited so far
    bpc,              \* "idle" | "loop" | "await" | "pace" | "returned" | "threw"
    \* addTracksToPlaylist
    trackIds,         \* the argument
    validTrackIds,
    skippedCount,
    successful,
    failed,
    batchStart,       \* the loop index i of addTracksToPlaylist
    requests,         \* the uris arrays posted so far
    chunkOutcomes,    \* what each post came back with
    pauses,           \* pauses awaited between batches
    addResult,        \* the object addTracksToPlaylist returned
    apc,              \* "idle" | "start" | "loop" | "await" | "pace" | "returned" | "threw"
    \* getPlaylistTracks
    total,            \* the total taken from the first response
    offset,
    allTracks,
    fetches,          \* the offset and limit of every page request issued
    pages,            \* the total and items of every response received
    cpc,              \* "idle" | "fetch" | "await" | "returned" | "threw"
    \* searchPlaylistsByName
    playlistName,
    owner,            \* a string, or Null when no owner was given
    searchQuery,      \* the q parameter of the search request
    playlistItems,    \* response.data.playlists.items
    exactMatches,     \* the array returned
    ppc,              \* "idle" | "start" | "await" | "returned" | "threw"
    \* exportTracksToCSV / generateUniqueFilename
    baseFilename,     \* the playlist name the file is named after
    trackDataLength,  \* trackData.length
    files,            \* the names of the files of the target directory
    filename,         \* the filename local of generateUniqueFilename
    counter,          \* the counter local of generateUniqueFilename
    written,          \* the filenames written so far, in order
    xpc,              \* "idle" | "start" | "probe" | "chosen" | "exported" | "threw"
    \* getPlaylistByUrl / getPlaylistById
    url,              \* the URL given, Null when the lookup is by ID
    playlistId,       \* the ID looked up, Null until it is known
    idRequests,       \* the IDs of the GET /playlists/{id} requests issued
    idResponses,      \* what each request came back with
    lookupOutcome,    \* the playlist returned or the error thrown
    lpc,              \* "idle" | "byUrl" | "byId" | "await" | "returned" | "threw"
    \* getAccessToken
    clientId,         \* process.env.SPOTIFY_CLIENT_ID, Null when unset
    clientSecret,     \* process.env.SPOTIFY_CLIENT_SECRET, Null when unset
    tokenRequests,    \* the number of credential exchanges posted
    tokenResponses,   \* what each exchange came back with
    authOutcome,      \* the token returned or the error thrown
    tpc,              \* "idle" | "start" | "await" | "returned" | "threw"
    \* selectPlaylistFromList / promptUserSelection
    candidates,       \* the playlists argument
    answer,           \* the line the user entered, Null before it is read
    selectedPlaylist, \* the playlist selected, Null when there is none
    questions,        \* the number of prompts shown
    qpc,              \* "idle" | "start" | "prompt" | "returned" | "threw"
    \* main of the four command-line tools
    tool,             \* "export" | "find" | "batch" | "create"
    argv,             \* process.argv.slice(2)
    environment,      \* the two credential variables of process.env
    inputFile,        \* the input CSV file of the batch and create tools
    network,          \* the requests main has issued, by kind
    outputWrites,     \* how many times the output CSV has been written
    exitCode,         \* the exit status, NoExit while the process runs
    mpc,              \* "idle" | "start" | "auth" | "oauth" | "work" | "processing" | "writing" | "exited"
    \* main of exportPlaylist, from its first await on
    mode,             \* parsed.mode: "name" | "url" | "id"
    foundPlaylist,    \* what getPlaylist returned, NoPlaylist before
    trackData,        \* the 'Spotify Track ID' of every row handed to the CSV export
    exportError,      \* what the catch of main caught, "none" before
    csvFiles,         \* the rows of every CSV file written
    exportExit,       \* the exit status, NoExit while the process runs
    epc,              \* "idle" | "auth" | "resolve" | "tracks" | "export" | "exited"
    \* performOAuthFlow / startCallbackServer
    flowState,        \* the state token generateState returned, Null before
    events,           \* what the listener and the timer have seen, in order
    settleCalls,      \* the calls of resolve and reject, in order
    waitOutcome,      \* what the promise of startCallbackServer settled with
    serverClosed,     \* server.close() has been called
    timerPending,     \* the 5-minute timer is armed and has not fired
    exchanges,        \* the codes handed to exchangeCodeForToken
    opc,              \* "idle" | "wait" | "exchange" | "returned" | "threw" | "killed"
    \* main of the create-playlist tool, from the reading of the CSV on
    csvRecords,       \* the records of the input CSV
    trackValidation,  \* what extractTrackIds returned, NoValidation before
    playlistsCreated, \* how many playlists createPlaylist has created
    summary,          \* the counts of the final summary, NoResult before
    createExit,       \* the exit status, NoExit while the process runs
    kpc               \* "idle" | "start" | "oauth" | "profile" | "create" | "adding" | "done" | "exited"

finderVars == <<tracks, yearField, earliest, fpc>>
sortVars == <<albumInfo, sortedInfo, spc>>
batchVars == <<records, enhancedRecords, recordIndex, processedCount, foundCount,
               remoteCalls, responses, delays, bpc>>
addVars == <<trackIds, validTrackIds, skippedCount, successful, failed, batchStart,
             requests, chunkOutcomes, pauses, addResult, apc>>

collectVars == <<total, offset, allTracks, fetches, pages, cpc>>
searchVars == <<playlistName, owner, searchQuery, playlistItems, exactMatches, ppc>>

exportVars == <<baseFilename, trackDataLength, files, filename, counter, written, xpc>>

lookupVars == <<url, playlistId, idRequests, idResponses, lookupOutcome, lpc>>

authVars == <<clientId, clientSecret, tokenRequests, tokenResponses, authOutcome, tpc>>

selectVars == <<candidates, answer, selectedPlaylist, questions, qpc>>

toolVars == <<tool, argv, environment, inputFile, network, outputWrites, exitCode, mpc>>

exportToolVars == <<mode, foundPlaylist, trackData, exportError, csvFiles,
                   exportExit, epc>>

callbackVars == <<flowState, events, settleCalls, waitOutcome, serverClosed,
                  timerPending, exchanges, opc>>

createToolVars == <<csvRecords, trackValidation, playlistsCreated, summary,
                    createExit, kpc>>

\* what the steps of one operation leave alone: the other operations
exceptFinder == <<sortVars, batchVars, addVars, collectVars, searchVars,
                   exportVars, lookupVars, authVars, selectVars, toolVars,
                   exportToolVars, callbackVars, createToolVars>>
exceptSort == <<finderVars, batchVars, addVars, collectVars, searchVars,
                 exportVars, lookupVars, authVars, selectVars, toolVars,
                 exportToolVars, callbackVars, createToolVars>>
exceptBatch == <<finderVars, sortVars, addVars, collectVars, searchVars,
                  exportVars, lookupVars, authVars, selectVars, toolVars,
                  exportToolVars, callbackVars, createToolVars>>
exceptAdd == <<finderVars, sortVars, batchVars, collectVars, searchVars,
                exportVars, lookupVars, authVars, selectVars, toolVars,
                exportToolVars, callbackVars, createToolVars>>
exceptCollect == <<finderVars, sortVars, batchVars, addVars, searchVars,
                    exportVars, lookupVars, authVars, selectVars, toolVars,
                    exportToolVars, callbackVars, createToolVars>>
exceptSearch == <<finderVars, sortVars, batchVars, addVars, collectVars,
                   exportVars, lookupVars, authVars, selectVars, toolVars,
                   exportToolVars, callbackVars, createToolVars>>
exceptExport == <<finderVars, sortVars, batchVars, addVars, collectVars,
                   searchVars, lookupVars, authVars, selectVars, toolVars,
                   exportToolVars, callbackVars, createToolVars>>
exceptLookup == <<finderVars, sortVars, batchVars, addVars, collectVars,
                   searchVars, exportVars, authVars, selectVars, toolVars,
                   exportToolVars, callbackVars, createToolVars>>
exceptAuth == <<finderVars, sortVars, batchVars, addVars, collectVars,
                 searchVars, exportVars, lookupVars, selectVars, toolVars,
                 exportToolVars, callbackVars, createToolVars>>
exceptSelect == <<finderVars, sortVars, batchVars, addVars, collectVars,
                   searchVars, exportVars, lookupVars, authVars, toolVars,
                   exportToolVars, callbackVars, createToolVars>>
exceptTool == <<finderVars, sortVars, batchVars, addVars, collectVars,
                 searchVars, exportVars, lookupVars, authVars, selectVars,
                 exportToolVars, callbackVars, createToolVars>>
exceptExportTool == <<finderVars, sortVars, batchVars, addVars, collectVars,
                       searchVars, exportVars, lookupVars, authVars,
                       selectVars, toolVars, callbackVars, createToolVars>>
exceptCallback == <<finderVars, sortVars, batchVars, addVars, collectVars,
                     searchVars, exportVars, lookupVars, authVars,
                     selectVars, toolVars, exportToolVars, createToolVars>>
exceptCreateTool == <<finderVars, sortVars, batchVars, addVars, collectVars,
                       searchVars, exportVars, lookupVars, authVars,
                       selectVars, toolVars, exportToolVars, callbackVars>>
exceptToolBatch == <<finderVars, sortVars, addVars, collectVars, searchVars,
                      exportVars, lookupVars, authVars, selectVars,
                      exportToolVars, callbackVars, createToolVars>>
exceptExportToolCollect == <<finderVars, sortVars, batchVars, addVars,
                              searchVars, exportVars, lookupVars, authVars,
                              selectVars, toolVars, callbackVars,
                              createToolVars>>
exceptCreateToolCallbackAdd == <<finderVars, sortVars, batchVars,
                                  collectVars, searchVars, exportVars,
                                  lookupVars, authVars, selectVars, toolVars,
                                  exportToolVars>>

(***************************************************************************)
(* Bounds of the model.                                                    *)
(***************************************************************************)
MaxTracks == 2      \* items in one track-search response
MaxAlbums == 3      \* candidates handed to the sort
MaxYear == 2        \* calendar years of release dates are 1..MaxYear
MaxRows == 2        \* rows of the input CSV
MaxIds == 3         \* entries of a short trackIds list
MaxItems == 1       \* entries of one page of playlist tracks
MaxPlaylists == 2   \* items of one playlist-search response
MaxCopies == 2      \* numbered copies the target directory may hold
MaxExports == 2     \* exports of the same playlist in a row
MaxCandidates == 3  \* playlists handed to selectPlaylistFromList
MaxRequests == 2    \* requests the callback server receives

(***************************************************************************)
(* Strings.                                                                *)
(***************************************************************************)
Null == <<"null">>

\* JavaScript truthiness of a string-or-null value
Truthy(s) == s # Null /\ s # <<>>

\* String.prototype.toLowerCase, one character
LowerChar(c) ==
    CASE c = "A" -> "a" [] c = "B" -> "b" [] c = "C" -> "c"
      [] c = "S" -> "s" [] c = "U" -> "u" [] c = "Y" -> "y"
      [] OTHER -> c

\* String.prototype.toUpperCase, one character
UpperChar(c) ==
    CASE c = "a" -> "A" [] c = "b" -> "B" [] c = "c" -> "C"
      [] c = "s" -> "S" [] c = "u" -> "U" [] c = "y" -> "Y"
      [] OTHER -> c

IsUpper(c) == LowerChar(c) # c

ToLowerCase(s) == [i \in 1..Len(s) |-> LowerChar(s[i])]

\* String.prototype.includes
Includes(s, sub) ==
    \E i \in 0..(Len(s) - Len(sub)) : SubSeq(s, i + 1, i + Len(sub)) = sub

\* UTF-16 code unit of a character (the letters the model uses)
CodeUnit(c) ==
    CASE c = "A" -> 65 [] c = "B" -> 66 [] c = "C" -> 67
      [] c = "a" -> 97 [] c = "b" -> 98 [] c = "c" -> 99
      [] OTHER -> 120

RECURSIVE CompareInts(_, _)
\* lexicographic three-way comparison of two sequences of integers
CompareInts(x, y) ==
    IF x = <<>> /\ y = <<>> THEN 0
    ELSE IF x = <<>> THEN -1
    ELSE IF y = <<>> THEN 1
    ELSE IF x[1] < y[1] THEN -1
    ELSE IF x[1] > y[1] THEN 1
    ELSE CompareInts(Tail(x), Tail(y))

\* primary collation weight: the letter, whatever its case
PrimaryWeight(c) == CodeUnit(LowerChar(c))

\* tertiary collation weight: lower case sorts before upper case
TertiaryWeight(c) == IF IsUpper(c) THEN 1 ELSE 0

PrimaryWeights(s) == [k \in 1..Len(s) |-> PrimaryWeight(s[k])]

TertiaryWeights(s) == [k \in 1..Len(s) |-> TertiaryWeight(s[k])]

CodeUnits(s) == [k \in 1..Len(s) |-> CodeUnit(s[k])]

\* String.prototype.localeCompare (default collation): letters first,
\* case only to break a tie between strings with the same letters
localeCompare(x, y) ==
    IF CompareInts(PrimaryWeights(x), PrimaryWeights(y)) # 0
    THEN CompareInts(PrimaryWeights(x), PrimaryWeights(y))
    ELSE CompareInts(TertiaryWeights(x), TertiaryWeights(y))

\* the relational operator <= on two strings (code-unit order)
CodeUnitLeq(x, y) == CompareInts(CodeUnits(x), CodeUnits(y)) <= 0


\* whitespace characters (String.prototype.trim, parseInt)
IsWhitespace(c) == c = " "

RECURSIVE TrimStart(_)
TrimStart(s) ==
    IF s # <<>> /\ IsWhitespace(s[1]) THEN TrimStart(Tail(s)) ELSE s

RECURSIVE TrimEnd(_)
TrimEnd(s) ==
    IF s # <<>> /\ IsWhitespace(s[Len(s)])
    THEN TrimEnd(SubSeq(s, 1, Len(s) - 1)) ELSE s

\* String.prototype.trim
Trim(s) == TrimEnd(TrimStart(s))

IsDigit(c) == c \in {"0", "1", "2", "3", "4", "5", "6", "7", "8", "9"}

DigitVal(c) ==
    CASE c = "0" -> 0 [] c = "1" -> 1 [] c = "2" -> 2 [] c = "3" -> 3
      [] c = "4" -> 4 [] c = "5" -> 5 [] c = "6" -> 6 [] c = "7" -> 7
      [] c = "8" -> 8 [] c = "9" -> 9

DigitChar(d) ==
    CASE d = 0 -> "0" [] d = 1 -> "1" [] d = 2 -> "2" [] d = 3 -> "3"
      [] d = 4 -> "4" [] d = 5 -> "5" [] d = 6 -> "6" [] d = 7 -> "7"
      [] d = 8 -> "8" [] d = 9 -> "9"

RECURSIVE DigitsPrefix(_)
\* the longest prefix of s made of decimal digits
DigitsPrefix(s) ==
    IF s # <<>> /\ IsDigit(s[1]) THEN <<s[1]>> \o DigitsPrefix(Tail(s)) ELSE <<>>

RECURSIVE DigitsValue(_)
DigitsValue(d) ==
    IF d = <<>> THEN 0
    ELSE DigitsValue(SubSeq(d, 1, Len(d) - 1)) * 10 + DigitVal(d[Len(d)])

\* a JavaScript number: NaN or an integer
NaN == [nan |-> TRUE, v |-> 0]
Num(n) == [nan |-> FALSE, v |-> n]

\* parseInt(s) without a radix: leading whitespace, an optional sign, then
\* the longest run of decimal digits; NaN when there is no digit.  (The
\* strings of the model hold no "x", so the 0x prefix never applies.)
parseInt(s) ==
    LET t == TrimStart(s)
        signed == t # <<>> /\ t[1] \in {"-", "+"}
        digits == DigitsPrefix(IF signed THEN Tail(t) ELSE t)
    IN  IF digits = <<>> THEN NaN
        ELSE IF signed /\ t[1] = "-" THEN Num(0 - DigitsValue(digits))
        ELSE Num(DigitsValue(digits))

RECURSIVE NatToString(_)
NatToString(n) ==
    IF n < 10 THEN <<DigitChar(n)>>
    ELSE NatToString(n \div 10) \o <<DigitChar(n % 10)>>

\* Number.prototype.toString of an integer
toString(n) == IF n < 0 THEN <<"-">> \o NatToString(0 - n) ELSE NatToString(n)

(***************************************************************************)
(* Album finder.                                                           *)
(*                                                                         *)
(* A track of a search response is a record                                *)
(*   [id, name, artists, album_name, album_type, release_date]             *)
(* where artists is a sequence of artist names and the album_* fields and  *)
(* release_date are track.album?.name, track.album?.album_type and         *)
(* track.album?.release_date.  A release date is NoDate (absent),          *)
(* BadDate (a string new Date() cannot parse) or DateOf(y), a string that  *)
(* new Date() parses and whose getFullYear() is y.                         *)
(***************************************************************************)
NoDate == [kind |-> "absent", year |-> 0]
BadDate == [kind |-> "unparsable", year |-> 0]
DateOf(y) == [kind |-> "date", year |-> y]

AlbumStr == <<"a", "l", "b", "u", "m">>
CompilationStr == <<"c", "o", "m", "p", "i", "l", "a", "t", "i", "o", "n">>
UnknownStr == <<"U", "n", "k", "n", "o", "w", "n">>
UnknownAlbumStr == <<"U", "n", "k", "n", "o", "w", "n", " ", "A", "l", "b", "u", "m">>
UnknownTrackStr == <<"U", "n", "k", "n", "o", "w", "n", " ", "T", "r", "a", "c", "k">>

\* the local re-filter of searchTracksByNameAndArtist on the response items
searchTracksByNameAndArtist(items, trackName, artistName) ==
    LET trackNameMatches(t) ==
            Truthy(t.name) /\ Includes(ToLowerCase(t.name), ToLowerCase(trackName))
        artistMatches(t) ==
            \E k \in 1..Len(t.artists) :
                /\ Truthy(t.artists[k])
                /\ Includes(ToLowerCase(t.artists[k]), ToLowerCase(artistName))
        matches(t) == trackNameMatches(t) /\ artistMatches(t)
    IN  SelectSeq(items, matches)

\* albumType.charAt(0).toUpperCase() + albumType.slice(1)
Capitalize(s) == IF s = <<>> THEN <<>> ELSE <<UpperChar(s[1])>> \o Tail(s)

formatAlbumInformation(ts) ==
    [i \in 1..Len(ts) |->
        LET track == ts[i] IN
        [ trackName   |-> IF Truthy(track.name) THEN track.name ELSE UnknownTrackStr,
          albumName   |-> IF Truthy(track.album_name) THEN track.album_name
                          ELSE UnknownAlbumStr,
          releaseYear |-> IF track.release_date.kind = "date"
                          THEN track.release_date.year ELSE 0,
          albumType   |-> Capitalize(IF Truthy(track.album_type) THEN track.album_type
                                     ELSE UnknownStr),
          trackId     |-> IF Truthy(track.id) THEN track.id ELSE <<>> ]]

\* a comparator that ignores the album name
compareAlbumsYearOnly(a, b) == a.releaseYear - b.releaseYear

\* the comparator of sortAlbumsByReleaseYear
compareAlbums(a, b) ==
    IF a.releaseYear # b.releaseYear
    THEN a.releaseYear - b.releaseYear
    ELSE localeCompare(a.albumName, b.albumName)

RECURSIVE InsertSorted(_, _)
\* x goes before the first element that compares greater than x
InsertSorted(x, t) ==
    IF t = <<>> THEN <<x>>
    ELSE IF compareAlbums(t[1], x) > 0 THEN <<x>> \o t
    ELSE <<t[1]>> \o InsertSorted(x, Tail(t))

RECURSIVE sortAlbumsByReleaseYear(_)
\* Array.prototype.sort with compareAlbums: a stable sort
sortAlbumsByReleaseYear(info) ==
    IF info = <<>> THEN <<>>
    ELSE InsertSorted(info[Len(info)],
                      sortAlbumsByReleaseYear(SubSeq(info, 1, Len(info) - 1)))

\* getTrackAlbumInformation on the items of the search response; beforeYear
\* is a number (an integer), albumTypeFilter a string or Null
getTrackAlbumInformation(items, trackName, artistName, albumTypeFilter, beforeYear) ==
    LET found == searchTracksByNameAndArtist(items, trackName, artistName)
        info0 == formatAlbumInformation(found)
        typeOk(info) == ToLowerCase(info.albumType) = ToLowerCase(albumTypeFilter)
        info1 == IF Truthy(albumTypeFilter) THEN SelectSeq(info0, typeOk) ELSE info0
        yearOk(info) == info.releaseYear > 0 /\ info.releaseYear < beforeYear
        info2 == IF beforeYear # 0 THEN SelectSeq(info1, yearOk) ELSE info1
    IN  sortAlbumsByReleaseYear(info2)

\* the value null of an album candidate
NoAlbum == [trackName |-> Null, albumName |-> Null, releaseYear |-> 0,
            albumType |-> Null, trackId |-> Null]

findEarliestAlbumBeforeYear(items, trackName, artistName, beforeYear) ==
    LET info == getTrackAlbumInformation(items, trackName, artistName, AlbumStr, beforeYear)
    IN  IF Len(info) > 0 THEN info[1] ELSE NoAlbum


SeqsUpTo(S, n) == UNION {[1..k -> S] : k \in 0..n}

(***************************************************************************)
(* The album finder applied to one search response (SpecFinder).           *)
(***************************************************************************)
QueryTrack == <<"y">>
QueryArtist == <<"b">>

\* the 'Release Year' column values the batch engine may parse
YearStrings ==
    { <<>>, <<"z">>, <<"0">>, <<"2">>, <<"3">>, <<"-", "2">>, <<"2", "z">>, <<"1", "0">> }

FinderTracks ==
    [ id           : {<<"p">>},
      name         : {<<"Y">>, <<"c">>},
      artists      : {<< <<"A", "b">> >>},
      album_name   : {<<"a">>, <<"B">>},
      album_type   : {AlbumStr, CompilationStr, Null},
      release_date : {NoDate, BadDate} \cup {DateOf(y) : y \in 1..MaxYear} ]

FinderIdle ==
    /\ tracks = <<>>
    /\ yearField = <<>>
    /\ earliest = NoAlbum
    /\ fpc = "idle"

FinderInit ==
    /\ tracks \in SeqsUpTo(FinderTracks, MaxTracks)
    /\ yearField = <<>>
    /\ earliest = NoAlbum
    /\ fpc = "ready"

\* processTrackRecord's call: the year is parseInt of the column and the
\* call is made only when it is not NaN
FindEarliest ==
    /\ fpc = "ready"
    /\ \E ys \in YearStrings :
        /\ ~parseInt(ys).nan
        /\ yearField' = ys
        /\ earliest' = findEarliestAlbumBeforeYear(tracks, QueryTrack, QueryArtist,
                                                   parseInt(ys).v)
    /\ fpc' = "returned"
    /\ UNCHANGED tracks
    /\ UNCHANGED exceptFinder

(***************************************************************************)
(* sortAlbumsByReleaseYear applied to a list of candidates (SpecSort).     *)
(***************************************************************************)
SortCandidates ==
    [ albumName   : {<<"a">>, <<"B">>},
      releaseYear : 1..2,
      trackId     : {<<"p">>, <<"q">>} ]

SortIdle ==
    /\ albumInfo = <<>>
    /\ sortedInfo = <<>>
    /\ spc = "idle"

SortInit ==
    /\ albumInfo \in SeqsUpTo(SortCandidates, MaxAlbums)
    /\ sortedInfo = <<>>
    /\ spc = "build"

SortAlbums ==
    /\ spc = "build"
    /\ sortedInfo' = sortAlbumsByReleaseYear(albumInfo)
    /\ spc' = "sorted"
    /\ UNCHANGED albumInfo
    /\ UNCHANGED exceptSort

(***************************************************************************)
(* Batch enrichment: processAllRecords and processTrackRecord (SpecBatch). *)
(*                                                                         *)
(* A row is [TrackName, ArtistName, ReleaseYear, SpotifyTrackID], the      *)
(* four columns of the input CSV, each a string.                           *)
(***************************************************************************)
Rows ==
    [ TrackName      : {<<>>, <<"y">>},
      ArtistName     : {<<>>, <<"b">>},
      ReleaseYear    : {<<"z">>, <<"0">>, <<"3">>, <<"2", "z">>},
      SpotifyTrackID : {<<"q">>} ]

Track(albumName, albumType, date) ==
    [ id |-> <<"p">>, name |-> <<"Y">>, artists |-> << <<"A", "b">> >>,
      album_name |-> albumName, album_type |-> albumType, release_date |-> date ]

\* what a search request can come back with: a response carrying items, or
\* an error (a response with a non-2xx status, or no response at all)
SearchOutcomes ==
    { [kind |-> "ok", items |-> its] :
        its \in { <<>>,
                  <<Track(<<"a">>, AlbumStr, DateOf(1))>>,
                  <<Track(<<"a">>, CompilationStr, DateOf(1))>>,
                  <<Track(<<"B">>, AlbumStr, DateOf(2)), Track(<<"a">>, AlbumStr, BadDate)>> } }
    \cup { [kind |-> k, items |-> <<>>] : k \in {"401", "500", "network"} }

\* a record whose 'Release Year' is rewritten from the parsed number
createEnhancedRecordReparsedYear(inputRecord, info) ==
    [ TrackName           |-> inputRecord.TrackName,
      ArtistName          |-> inputRecord.ArtistName,
      ReleaseYear         |-> IF parseInt(inputRecord.ReleaseYear).nan THEN <<>>
                              ELSE toString(parseInt(inputRecord.ReleaseYear).v),
      SpotifyTrackID      |-> inputRecord.SpotifyTrackID,
      NewTrackName        |-> IF info # NoAlbum THEN info.trackName ELSE <<>>,
      NewAlbumName        |-> IF info # NoAlbum THEN info.albumName ELSE <<>>,
      NewAlbumReleaseYear |-> IF info # NoAlbum THEN toString(info.releaseYear) ELSE <<>>,
      NewTrackSpotifyID   |-> IF info # NoAlbum THEN info.trackId ELSE <<>> ]

createEnhancedRecord(inputRecord, info) ==
    [ TrackName           |-> inputRecord.TrackName,
      ArtistName          |-> inputRecord.ArtistName,
      ReleaseYear         |-> inputRecord.ReleaseYear,
      SpotifyTrackID      |-> inputRecord.SpotifyTrackID,
      NewTrackName        |-> IF info # NoAlbum THEN info.trackName ELSE <<>>,
      NewAlbumName        |-> IF info # NoAlbum THEN info.albumName ELSE <<>>,
      NewAlbumReleaseYear |-> IF info # NoAlbum THEN toString(info.releaseYear) ELSE <<>>,
      NewTrackSpotifyID   |-> IF info # NoAlbum THEN info.trackId ELSE <<>> ]

\* the test without the check of the release year
InvalidDataNamesOnly(record) ==
    \/ ~Truthy(record.TrackName)
    \/ ~Truthy(record.ArtistName)

\* processTrackRecord's test: !trackName || !artistName || isNaN(releaseYear)
InvalidData(record) ==
    \/ ~Truthy(record.TrackName)
    \/ ~Truthy(record.ArtistName)
    \/ parseInt(record.ReleaseYear).nan

\* processAllRecords after processTrackRecord has returned enhancedRecord
PushRecord(enhancedRecord) ==
    /\ processedCount' = processedCount + 1
    /\ enhancedRecords' = Append(enhancedRecords, enhancedRecord)
    /\ foundCount' = IF Truthy(enhancedRecord.NewAlbumName)
                     THEN foundCount + 1 ELSE foundCount
    /\ bpc' = "pace"

BatchIdle ==
    /\ records = <<>>
    /\ enhancedRecords = <<>>
    /\ recordIndex = 0
    /\ processedCount = 0
    /\ foundCount = 0
    /\ remoteCalls = <<>>
    /\ responses = <<>>
    /\ delays = 0
    /\ bpc = "idle"

BatchInit ==
    /\ records \in SeqsUpTo(Rows, MaxRows)
    /\ enhancedRecords = <<>>
    /\ recordIndex = 0
    /\ processedCount = 0
    /\ foundCount = 0
    /\ remoteCalls = <<>>
    /\ responses = <<>>
    /\ delays = 0
    /\ bpc = "loop"

\* processTrackRecord on a row with invalid data: no remote call
ProcessInvalidRecord ==
    /\ bpc = "loop"
    /\ recordIndex < Len(records)
    /\ InvalidData(records[recordIndex + 1])
    /\ PushRecord(createEnhancedRecord(records[recordIndex + 1], NoAlbum))
    /\ UNCHANGED <<records, recordIndex, remoteCalls, responses, delays>>
    /\ UNCHANGED exceptBatch

\* processTrackRecord on a valid row, up to the await of the search
IssueSearch ==
    /\ bpc = "loop"
    /\ recordIndex < Len(records)
    /\ ~InvalidData(records[recordIndex + 1])
    /\ remoteCalls' = Append(remoteCalls, recordIndex)
    /\ bpc' = "await"
    /\ UNCHANGED <<records, enhancedRecords, recordIndex, processedCount, foundCount,
                   responses, delays>>
    /\ UNCHANGED exceptBatch

\* the search settles and an error is rethrown out of processAllRecords
SearchSettlesRethrow ==
    /\ bpc = "await"
    /\ \E o \in SearchOutcomes :
        /\ responses' = Append(responses, o)
        /\ IF o.kind = "ok"
           THEN PushRecord(createEnhancedRecord(records[recordIndex + 1],
                    findEarliestAlbumBeforeYear(o.items, records[recordIndex + 1].TrackName,
                        records[recordIndex + 1].ArtistName, parseInt(records[recordIndex + 1].ReleaseYear).v)))
           ELSE /\ bpc' = "threw"
                /\ UNCHANGED <<enhancedRecords, processedCount, foundCount>>
    /\ UNCHANGED <<records, recordIndex, remoteCalls, delays>>
    /\ UNCHANGED exceptBatch

\* the search settles: processTrackRecord returns the enhanced record, or
\* catches the error and returns the record with empty new fields
SearchSettles ==
    /\ bpc = "await"
    /\ \E o \in SearchOutcomes :
        /\ responses' = Append(responses, o)
        /\ IF o.kind = "ok"
           THEN PushRecord(createEnhancedRecord(records[recordIndex + 1],
                    findEarliestAlbumBeforeYear(o.items, records[recordIndex + 1].TrackName,
                        records[recordIndex + 1].ArtistName, parseInt(records[recordIndex + 1].ReleaseYear).v)))
           ELSE PushRecord(createEnhancedRecord(records[recordIndex + 1], NoAlbum))
    /\ UNCHANGED <<records, recordIndex, remoteCalls, delays>>
    /\ UNCHANGED exceptBatch

\* a loop that waits after every row, the last one included
PaceRowsAfterEveryRow ==
    /\ bpc = "pace"
    /\ delays' = delays + 1
    /\ recordIndex' = recordIndex + 1
    /\ bpc' = "loop"
    /\ UNCHANGED <<records, enhancedRecords, processedCount, foundCount,
                   remoteCalls, responses>>
    /\ UNCHANGED exceptBatch

\* the delay between rows (none after the last row) and the loop increment
PaceRows ==
    /\ bpc = "pace"
    /\ delays' = IF recordIndex < Len(records) - 1 THEN delays + 1 ELSE delays
    /\ recordIndex' = recordIndex + 1
    /\ bpc' = "loop"
    /\ UNCHANGED <<records, enhancedRecords, processedCount, foundCount,
                   remoteCalls, responses>>
    /\ UNCHANGED exceptBatch

\* the loop ends and processAllRecords returns enhancedRecords
BatchReturn ==
    /\ bpc = "loop"
    /\ recordIndex >= Len(records)
    /\ bpc' = "returned"
    /\ UNCHANGED <<records, enhancedRecords, recordIndex, processedCount, foundCount,
                   remoteCalls, responses, delays>>
    /\ UNCHANGED exceptBatch

(***************************************************************************)
(* addTracksToPlaylist (SpecAdd).                                          *)
(*                                                                         *)
(* An element of trackIds is a string, Null, or NotAString (a truthy value *)
(* that is not a string, such as the number 42).                           *)
(***************************************************************************)
NotAString == <<"number">>

IsString(x) == x # Null /\ x # NotAString

batchSize == 100

\* the filter without its trim() test
IsValidTrackIdNoTrim(id) == Truthy(id) /\ IsString(id)

\* id && typeof id === 'string' && id.trim() !== ''
IsValidTrackId(id) == Truthy(id) /\ IsString(id) /\ Trim(id) # <<>>

SpotifyTrackPrefix ==
    <<"s", "p", "o", "t", "i", "f", "y", ":", "t", "r", "a", "c", "k", ":">>

\* `spotify:track:${id}`
TrackUri(id) == SpotifyTrackPrefix \o id

\* the k-th of a long list of distinct IDs
IdOf(k) == <<"t">> \o toString(k)

SmallIds == {<<"p">>, <<"q">>, <<>>, <<" ">>, Null, NotAString}

\* a list of n entries, distinct IDs but for the entries at the positions bad
LongList(n, bad) ==
    [k \in 1..n |-> IF k \in bad THEN (IF k = 1 THEN <<" ">> ELSE Null) ELSE IdOf(k)]

LongLists ==
    {LongList(n, bad) : n \in {100, 101, 200, 201}, bad \in SUBSET {1, 101}}

\* what a post of one batch can come back with
ChunkOutcomes == {"ok", "401", "500", "network"}

NoResult == [successful |-> -1, failed |-> -1, skipped |-> -1]

Min(a, b) == IF a < b THEN a ELSE b

\* validTrackIds.slice(i, i + batchSize)
CurrentBatch == SubSeq(validTrackIds, batchStart + 1,
                       Min(batchStart + batchSize, Len(validTrackIds)))

AddIdle ==
    /\ trackIds = <<>>
    /\ validTrackIds = <<>>
    /\ skippedCount = 0
    /\ successful = 0
    /\ failed = 0
    /\ batchStart = 0
    /\ requests = <<>>
    /\ chunkOutcomes = <<>>
    /\ pauses = 0
    /\ addResult = NoResult
    /\ apc = "idle"

AddInit ==
    /\ trackIds \in SeqsUpTo(SmallIds, MaxIds) \cup LongLists
    /\ validTrackIds = <<>>
    /\ skippedCount = 0
    /\ successful = 0
    /\ failed = 0
    /\ batchStart = 0
    /\ requests = <<>>
    /\ chunkOutcomes = <<>>
    /\ pauses = 0
    /\ addResult = NoResult
    /\ apc = "start"

\* the filter, the skipped count and the early return when no ID is valid
AddStart ==
    /\ apc = "start"
    /\ validTrackIds' = SelectSeq(trackIds, IsValidTrackId)
    /\ skippedCount' = Len(trackIds) - Len(validTrackIds')
    /\ IF Len(validTrackIds') = 0
       THEN /\ addResult' = [successful |-> 0, failed |-> Len(trackIds),
                             skipped |-> skippedCount']
            /\ apc' = "returned"
       ELSE /\ addResult' = addResult
            /\ apc' = "loop"
    /\ UNCHANGED <<trackIds, successful, failed, batchStart, requests,
                   chunkOutcomes, pauses>>
    /\ UNCHANGED exceptAdd

\* one turn of the loop up to the await of the post
PostBatch ==
    /\ apc = "loop"
    /\ batchStart < Len(validTrackIds)
    /\ requests' = Append(requests,
                          [k \in 1..Len(CurrentBatch) |-> TrackUri(CurrentBatch[k])])
    /\ apc' = "await"
    /\ UNCHANGED <<trackIds, validTrackIds, skippedCount, successful, failed,
                   batchStart, chunkOutcomes, pauses, addResult>>
    /\ UNCHANGED exceptAdd

\* a 401 rethrown out of addTracksToPlaylist
PostSettlesRethrows401 ==
    /\ apc = "await"
    /\ \E o \in ChunkOutcomes :
        /\ chunkOutcomes' = Append(chunkOutcomes, o)
        /\ IF o = "ok"
           THEN successful' = successful + Len(CurrentBatch) /\ failed' = failed
           ELSE failed' = failed + Len(CurrentBatch) /\ successful' = successful
        /\ apc' = IF o = "401" THEN "threw" ELSE "pace"
    /\ UNCHANGED <<trackIds, validTrackIds, skippedCount, batchStart, requests,
                   pauses, addResult>>
    /\ UNCHANGED exceptAdd

\* a failed post counted as one failed track
PostSettlesCountsOne ==
    /\ apc = "await"
    /\ \E o \in ChunkOutcomes :
        /\ chunkOutcomes' = Append(chunkOutcomes, o)
        /\ IF o = "ok"
           THEN successful' = successful + Len(CurrentBatch) /\ failed' = failed
           ELSE failed' = failed + 1 /\ successful' = successful
    /\ apc' = "pace"
    /\ UNCHANGED <<trackIds, validTrackIds, skippedCount, batchStart, requests,
                   pauses, addResult>>
    /\ UNCHANGED exceptAdd

\* the post settles: the batch is counted as added, or the error is caught
\* and the batch is counted as failed
PostSettles ==
    /\ apc = "await"
    /\ \E o \in ChunkOutcomes :
        /\ chunkOutcomes' = Append(chunkOutcomes, o)
        /\ IF o = "ok"
           THEN successful' = successful + Len(CurrentBatch) /\ failed' = failed
           ELSE failed' = failed + Len(CurrentBatch) /\ successful' = successful
    /\ apc' = "pace"
    /\ UNCHANGED <<trackIds, validTrackIds, skippedCount, batchStart, requests,
                   pauses, addResult>>
    /\ UNCHANGED exceptAdd

\* the pause between batches (none after the last one) and the loop step
PaceBatches ==
    /\ apc = "pace"
    /\ pauses' = IF batchStart + batchSize < Len(validTrackIds)
                 THEN pauses + 1 ELSE pauses
    /\ batchStart' = batchStart + batchSize
    /\ apc' = "loop"
    /\ UNCHANGED <<trackIds, validTrackIds, skippedCount, successful, failed,
                   requests, chunkOutcomes, addResult>>
    /\ UNCHANGED exceptAdd

\* the loop ends and the counts are returned
AddReturn ==
    /\ apc = "loop"
    /\ batchStart >= Len(validTrackIds)
    /\ addResult' = [successful |-> successful, failed |-> failed,
                     skipped |-> skippedCount]
    /\ apc' = "returned"
    /\ UNCHANGED <<trackIds, validTrackIds, skippedCount, successful, failed,
                   batchStart, requests, chunkOutcomes, pauses>>
    /\ UNCHANGED exceptAdd

(***************************************************************************)
(* getPlaylistTracks (SpecCollect).                                        *)
(*                                                                         *)
(* An entry of a page is null (NullEntry), has a null track (NoTrack), has *)
(* a track without id (NoId) or has a track with an id.                    *)
(***************************************************************************)
limit == 50

Entry(id) == [isNull |-> FALSE, hasTrack |-> TRUE, track |-> [id |-> id]]
NullEntry == [isNull |-> TRUE, hasTrack |-> FALSE, track |-> [id |-> Null]]
NoTrack == [isNull |-> FALSE, hasTrack |-> FALSE, track |-> [id |-> Null]]
NoId == Entry(Null)

PageEntries == {NullEntry, NoTrack, NoId, Entry(<<"p">>), Entry(<<"q">>)}

\* the totals a response may report
Totals == {0, 50, 51, 120}

\* what a page request can come back with: a body with total and items, a
\* body without items, a non-2xx status, or no response
PageOutcomes ==
    { [kind |-> "ok", total |-> t, items |-> its] :
        t \in Totals, its \in SeqsUpTo(PageEntries, MaxItems) }
    \cup { [kind |-> k, total |-> 0, items |-> <<>>] :
             k \in {"noitems", "401", "500", "network"} }

\* items.filter(item => item && item.track && item.track.id).map(item => item.track)
validTracks(items) ==
    LET kept == SelectSeq(items, LAMBDA item :
                    ~item.isNull /\ item.hasTrack /\ Truthy(item.track.id))
    IN  [k \in 1..Len(kept) |-> kept[k].track]

CollectIdle ==
    /\ total = 0
    /\ offset = 0
    /\ allTracks = <<>>
    /\ fetches = <<>>
    /\ pages = <<>>
    /\ cpc = "idle"

CollectInit ==
    /\ total = 0
    /\ offset = 0
    /\ allTracks = <<>>
    /\ fetches = <<>>
    /\ pages = <<>>
    /\ cpc = "fetch"

\* a loop that requests the next page while the last request is pending
FetchPageWhilePending ==
    /\ cpc \in {"fetch", "await"}
    /\ Len(fetches) <= Len(pages) + 1
    /\ fetches' = Append(fetches, [offset |-> offset, limit |-> limit])
    /\ cpc' = "await"
    /\ UNCHANGED <<total, offset, allTracks, pages>>
    /\ UNCHANGED exceptCollect

\* the body of the do-while up to the await of the page request
FetchPage ==
    /\ cpc = "fetch"
    /\ fetches' = Append(fetches, [offset |-> offset, limit |-> limit])
    /\ cpc' = "await"
    /\ UNCHANGED <<total, offset, allTracks, pages>>
    /\ UNCHANGED exceptCollect

\* a collector that takes the total from every response
PageSettlesEveryTotal ==
    /\ cpc = "await"
    /\ \E r \in PageOutcomes :
        /\ pages' = Append(pages, r)
        /\ IF r.kind = "ok"
           THEN /\ total' = r.total
                /\ allTracks' = allTracks \o validTracks(r.items)
                /\ offset' = offset + limit
                /\ cpc' = IF offset' < total' THEN "fetch" ELSE "returned"
           ELSE /\ cpc' = "threw"
                /\ UNCHANGED <<total, allTracks, offset>>
    /\ UNCHANGED fetches
    /\ UNCHANGED exceptCollect

\* the page request settles: the rest of the loop body and the loop test,
\* or the error thrown out of getPlaylistTracks
PageSettles ==
    /\ cpc = "await"
    /\ \E r \in PageOutcomes :
        /\ pages' = Append(pages, r)
        /\ IF r.kind = "ok"
           THEN /\ total' = IF offset = 0 THEN r.total ELSE total
                /\ allTracks' = allTracks \o validTracks(r.items)
                /\ offset' = offset + limit
                /\ cpc' = IF offset' < total' THEN "fetch" ELSE "returned"
           ELSE /\ cpc' = "threw"
                /\ UNCHANGED <<total, allTracks, offset>>
    /\ UNCHANGED fetches
    /\ UNCHANGED exceptCollect

(***************************************************************************)
(* searchPlaylistsByName (SpecSearch).                                     *)
(*                                                                         *)
(* An item of the response is null (NullPlaylist) or a playlist with a     *)
(* name (a string or Null) and an owner id (Null when the playlist has no  *)
(* owner or the owner has no id).                                          *)
(***************************************************************************)
NullPlaylist == [isNull |-> TRUE, name |-> Null, owner_id |-> Null]

Playlists ==
    [ isNull   : {FALSE},
      name     : {Null, <<>>, <<"a">>, <<"A">>, <<"a", "b">>},
      owner_id : {Null, <<"u">>, <<"U">>, <<"c">>} ]
    \cup {NullPlaylist}

PlaylistNames == {<<>>, <<"a">>, <<"A">>}

\* the owner argument: exportPlaylist passes args[2] || null
Owners == {Null, <<"u">>, <<"U">>}

OwnerTerm == <<" ", "o", "w", "n", "e", "r", ":">>

\* a name test that accepts a name containing the query
nameContains(playlist, name) ==
    /\ ~playlist.isNull
    /\ Truthy(playlist.name)
    /\ Includes(ToLowerCase(playlist.name), ToLowerCase(name))

\* playlist && playlist.name && playlist.name.toLowerCase() === playlistName.toLowerCase()
nameMatches(playlist, name) ==
    /\ ~playlist.isNull
    /\ Truthy(playlist.name)
    /\ ToLowerCase(playlist.name) = ToLowerCase(name)

\* playlist.owner && playlist.owner.id && playlist.owner.id.toLowerCase() === owner.toLowerCase()
ownerMatches(playlist, own) ==
    /\ Truthy(playlist.owner_id)
    /\ ToLowerCase(playlist.owner_id) = ToLowerCase(own)

\* what the search request can come back with
PlaylistOutcomes ==
    { [kind |-> "ok", items |-> its] : its \in SeqsUpTo(Playlists, MaxPlaylists) }
    \cup { [kind |-> k, items |-> <<>>] : k \in {"401", "500", "network"} }

SearchIdle ==
    /\ playlistName = <<>>
    /\ owner = Null
    /\ searchQuery = <<>>
    /\ playlistItems = <<>>
    /\ exactMatches = <<>>
    /\ ppc = "idle"

SearchInit ==
    /\ playlistName \in PlaylistNames
    /\ owner \in Owners
    /\ searchQuery = <<>>
    /\ playlistItems = <<>>
    /\ exactMatches = <<>>
    /\ ppc = "start"

\* the query is built and the search request issued
IssuePlaylistSearch ==
    /\ ppc = "start"
    /\ searchQuery' = IF Truthy(owner) THEN playlistName \o OwnerTerm \o owner
                      ELSE playlistName
    /\ ppc' = "await"
    /\ UNCHANGED <<playlistName, owner, playlistItems, exactMatches>>
    /\ UNCHANGED exceptSearch

\* the request settles: the two filters, or the error thrown
PlaylistSearchSettles ==
    /\ ppc = "await"
    /\ \E r \in PlaylistOutcomes :
        IF r.kind = "ok"
        THEN /\ playlistItems' = r.items
             /\ exactMatches' =
                  LET byName == SelectSeq(r.items, LAMBDA pl : nameMatches(pl, playlistName))
                  IN  IF Truthy(owner)
                      THEN SelectSeq(byName, LAMBDA pl : ownerMatches(pl, owner))
                      ELSE byName
             /\ ppc' = "returned"
        ELSE /\ ppc' = "threw"
             /\ UNCHANGED <<playlistItems, exactMatches>>
    /\ UNCHANGED <<playlistName, owner, searchQuery>>
    /\ UNCHANGED exceptSearch

(***************************************************************************)
(* CSV export: sanitizeFilename, generateUniqueFilename, exportTracksToCSV. *)
(***************************************************************************)
\* the characters of /[<>:"/\\|?*]/
IsInvalidChar(c) == c \in {"<", ">", ":", "\"", "/", "\\", "|", "?", "*"}

\* .replace(/[<>:"/\\|?*]/g, '_')
ReplaceInvalid(s) == [k \in 1..Len(s) |-> IF IsInvalidChar(s[k]) THEN "_" ELSE s[k]]

\* .replace(/\s+/g, '_'): every run of whitespace becomes one underscore
\* (the first character of the run is kept, as an underscore)
ReplaceSpaces(s) ==
    LET indexed == [k \in 1..Len(s) |-> [at |-> k, c |-> s[k]]]
        kept == SelectSeq(indexed, LAMBDA e :
                    ~(IsWhitespace(e.c) /\ e.at > 1 /\ IsWhitespace(s[e.at - 1])))
    IN  [k \in 1..Len(kept) |-> IF IsWhitespace(kept[k].c) THEN "_" ELSE kept[k].c]

RECURSIVE StripLeadingUnderscores(_)
StripLeadingUnderscores(s) ==
    IF s # <<>> /\ s[1] = "_" THEN StripLeadingUnderscores(Tail(s)) ELSE s

RECURSIVE StripTrailingUnderscores(_)
StripTrailingUnderscores(s) ==
    IF s # <<>> /\ s[Len(s)] = "_"
    THEN StripTrailingUnderscores(SubSeq(s, 1, Len(s) - 1)) ELSE s

\* .replace(/_{2,}/g, '_'): the first underscore of every run is kept
CollapseUnderscores(s) ==
    LET indexed == [k \in 1..Len(s) |-> [at |-> k, c |-> s[k]]]
        kept == SelectSeq(indexed, LAMBDA e :
                    ~(e.c = "_" /\ e.at > 1 /\ s[e.at - 1] = "_"))
    IN  [k \in 1..Len(kept) |-> kept[k].c]

\* .substring(0, 100)
maxFilenameLength == 100

\* a sanitizer that leaves whitespace alone
sanitizeFilenameKeepSpaces(name) ==
    LET stripped == StripTrailingUnderscores(StripLeadingUnderscores(
                        CollapseUnderscores(ReplaceInvalid(name))))
    IN  SubSeq(stripped, 1, Min(Len(stripped), maxFilenameLength))

sanitizeFilename(name) ==
    LET stripped == StripTrailingUnderscores(StripLeadingUnderscores(
                        CollapseUnderscores(ReplaceSpaces(ReplaceInvalid(name)))))
    IN  SubSeq(stripped, 1, Min(Len(stripped), maxFilenameLength))

extension == <<".", "c", "s", "v">>

MyPlaylist == <<"M", "y", " ", "P", "l", "a", "y", "l", "i", "s", "t">>

\* a name of n letters followed by tail
LongName(n, tail) == [k \in 1..n |-> "a"] \o tail

\* the playlist names exported: short ones, and names around the length
\* limit of sanitizeFilename
ExportNames ==
    {<<>>, <<"a">>, <<"a", " ", "b">>, <<":", "a", "_", " ">>, <<"?">>, MyPlaylist}
      \cup {LongName(n, tail) : n \in {98, 99, 100}, tail \in {<<"b">>, <<" ", "b">>}}

\* the k-th name generateUniqueFilename tries for a sanitized base
CopyName(base, k) == base \o <<"_">> \o toString(k) \o extension

\* files the target directory may hold before the export: the name as
\* given and the sanitized name with the extension, and the first copies
DirectoryFiles(name) ==
    {name \o extension, sanitizeFilename(name) \o extension}
      \cup {CopyName(sanitizeFilename(name), k) : k \in 1..MaxCopies}

ExportIdle ==
    /\ baseFilename = <<>>
    /\ trackDataLength = 0
    /\ files = {}
    /\ filename = <<>>
    /\ counter = 0
    /\ written = <<>>
    /\ xpc = "idle"

ExportInit ==
    /\ baseFilename \in ExportNames
    /\ trackDataLength \in 0..1
    /\ files \in SUBSET DirectoryFiles(baseFilename)
    /\ filename = <<>>
    /\ counter = 0
    /\ written = <<>>
    /\ xpc = "start"

\* exportTracksToCSV up to the first existsSync of generateUniqueFilename
ExportStart ==
    /\ xpc = "start"
    /\ IF trackDataLength = 0 \/ ~Truthy(baseFilename)
       THEN /\ xpc' = "threw"
            /\ UNCHANGED <<filename, counter>>
       ELSE /\ filename' = sanitizeFilename(baseFilename) \o extension
            /\ counter' = 1
            /\ xpc' = "probe"
    /\ UNCHANGED <<baseFilename, trackDataLength, files, written>>
    /\ UNCHANGED exceptExport

\* one iteration of the while loop: the path exists
ProbeExists ==
    /\ xpc = "probe"
    /\ filename \in files
    /\ filename' = CopyName(sanitizeFilename(baseFilename), counter)
    /\ counter' = counter + 1
    /\ UNCHANGED <<baseFilename, trackDataLength, files, written, xpc>>
    /\ UNCHANGED exceptExport

\* a loop exit that does not consult the directory after the first probe
ProbeFreeFirstCopy ==
    /\ xpc = "probe"
    /\ filename \notin files \/ counter > 1
    /\ xpc' = "chosen"
    /\ UNCHANGED <<baseFilename, trackDataLength, files, filename, counter, written>>
    /\ UNCHANGED exceptExport

\* the loop exits: the path does not exist, generateUniqueFilename returns
ProbeFree ==
    /\ xpc = "probe"
    /\ filename \notin files
    /\ xpc' = "chosen"
    /\ UNCHANGED <<baseFilename, trackDataLength, files, filename, counter, written>>
    /\ UNCHANGED exceptExport

\* CSVWriter.writeRecords resolves: the file is there with the new contents
WriteRecords ==
    /\ xpc = "chosen"
    /\ files' = files \cup {filename}
    /\ written' = Append(written, filename)
    /\ xpc' = "exported"
    /\ UNCHANGED <<baseFilename, trackDataLength, filename, counter>>
    /\ UNCHANGED exceptExport

\* CSVWriter.writeRecords rejects: 'CSV export failed: ...'
WriteFails ==
    /\ xpc = "chosen"
    /\ xpc' = "threw"
    /\ UNCHANGED <<baseFilename, trackDataLength, files, filename, counter, written>>
    /\ UNCHANGED exceptExport

\* the same playlist is exported again (the conflict test of testCSVExport)
ExportAgain ==
    /\ xpc = "exported"
    /\ Len(written) < MaxExports
    /\ xpc' = "start"
    /\ UNCHANGED <<baseFilename, trackDataLength, files, filename, counter, written>>
    /\ UNCHANGED exceptExport

(***************************************************************************)
(* Playlist lookup: extractPlaylistIdFromUrl, getPlaylistByUrl,            *)
(* getPlaylistById.                                                        *)
(***************************************************************************)
\* the character class [a-zA-Z0-9]
IsAlnum(c) ==
    c \in {"a", "b", "c", "d", "e", "f", "g", "h", "i", "j", "k", "l", "m",
           "n", "o", "p", "q", "r", "s", "t", "u", "v", "w", "x", "y", "z",
           "A", "B", "C", "D", "E", "F", "G", "H", "I", "J", "K", "L", "M",
           "N", "O", "P", "Q", "R", "S", "T", "U", "V", "W", "X", "Y", "Z",
           "0", "1", "2", "3", "4", "5", "6", "7", "8", "9"}

RECURSIVE AlnumPrefix(_)
\* the longest prefix of s made of letters and digits: what ([a-zA-Z0-9]+)
\* captures at the start of s
AlnumPrefix(s) ==
    IF s # <<>> /\ IsAlnum(s[1]) THEN <<s[1]>> \o AlnumPrefix(Tail(s)) ELSE <<>>

\* the literal part of /open\.spotify\.com\/playlist\/([a-zA-Z0-9]+)/
HttpPattern ==
    <<"o", "p", "e", "n", ".", "s", "p", "o", "t", "i", "f", "y", ".",
      "c", "o", "m", "/", "p", "l", "a", "y", "l", "i", "s", "t", "/">>

\* the literal part of /spotify:playlist:([a-zA-Z0-9]+)/
UriPattern ==
    <<"s", "p", "o", "t", "i", "f", "y", ":", "p", "l", "a", "y", "l",
      "i", "s", "t", ":">>

\* the positions of s at which the pattern matches: the literal part and
\* at least one letter or digit after it
MatchPositions(s, literal) ==
    {p \in 1..(Len(s) - Len(literal)) :
        /\ SubSeq(s, p, p + Len(literal) - 1) = literal
        /\ IsAlnum(s[p + Len(literal)])}

\* s.match(pattern)?.[1]: the capture group of the leftmost match, Null
\* (undefined) when there is no match
MatchGroup(s, literal) ==
    LET ps == MatchPositions(s, literal)
    IN  IF ps = {} THEN Null
        ELSE LET p == CHOOSE q \in ps : \A r \in ps : q <= r
             IN  AlnumPrefix(SubSeq(s, p + Len(literal), Len(s)))

\* an extraction that knows the web-link pattern only
extractPlaylistIdFromHttpUrl(u) ==
    MatchGroup(u, HttpPattern)

\* extractPlaylistIdFromUrl: the ID, or Null where the code throws
extractPlaylistIdFromUrl(u) ==
    LET httpMatch == MatchGroup(u, HttpPattern)
        uriMatch == MatchGroup(u, UriPattern)
        id == IF Truthy(httpMatch) THEN httpMatch ELSE uriMatch
    IN  IF Truthy(id) THEN id ELSE Null

ExampleId ==
    <<"3", "7", "i", "9", "d", "Q", "Z", "F", "1", "D", "X", "c", "B",
      "W", "I", "G", "o", "Y", "B", "M", "5", "M">>

NotAUrl ==
    <<"n", "o", "t", "-", "a", "-", "u", "r", "l">>

\* what may stand before the pattern, the patterns, the IDs and what may
\* follow the ID in the URLs looked up
UrlLeads == {<<>>, <<"h", "t", "t", "p", "s", ":", "/", "/">>, <<"x", " ">>}

UrlForms ==
    {HttpPattern, UriPattern,
     <<"e", "x", "a", "m", "p", "l", "e", ".", "c", "o", "m", "/", "p", "l", "a", "y", "l", "i", "s", "t", "/">>}

UrlIds == {<<>>, <<"a">>, <<"a", "B", "1">>, ExampleId}

UrlTrails == {<<>>, <<"?", "s", "i", "=", "a">>, <<"-", "b">>}

Urls ==
    {lead \o form \o id \o trail :
        lead \in UrlLeads, form \in UrlForms, id \in UrlIds, trail \in UrlTrails}
      \cup {NotAUrl, UriPattern \o <<"a", " ">> \o HttpPattern \o <<"b">>}

\* the IDs looked up directly
LookupIds == {<<"a">>, ExampleId}

\* a response of the remote service to GET /playlists/{id}: a status and
\* whether the body holds data; NoResponse when the request got none
NoResponse == [status |-> 0, hasData |-> FALSE]

GetResponses ==
    [status : {200, 401, 404, 500}, hasData : BOOLEAN] \cup {NoResponse}

\* axios resolves for a 2xx status and rejects for every other
Is2xx(status) == status >= 200 /\ status < 300

\* the outcomes of a lookup: the playlist, or the error thrown
NoOutcome == [kind |-> "none", status |-> 0]
PlaylistData == [kind |-> "playlist", status |-> 0]
InvalidUrlError == [kind |-> "invalidUrl", status |-> 0]
NotFoundError == [kind |-> "notFound", status |-> 0]
FetchFailed(status) == [kind |-> "fetchFailed", status |-> status]
NetworkError == [kind |-> "network", status |-> 0]

LookupIdle ==
    /\ url = Null
    /\ playlistId = Null
    /\ idRequests = <<>>
    /\ idResponses = <<>>
    /\ lookupOutcome = NoOutcome
    /\ lpc = "idle"

\* getPlaylistByUrl is called with a URL, or getPlaylistById with an ID
LookupInit ==
    /\ \/ url \in Urls /\ playlistId = Null /\ lpc = "byUrl"
       \/ url = Null /\ playlistId \in LookupIds /\ lpc = "byId"
    /\ idRequests = <<>>
    /\ idResponses = <<>>
    /\ lookupOutcome = NoOutcome

\* getPlaylistByUrl up to the call of getPlaylistById
ResolveUrl ==
    /\ lpc = "byUrl"
    /\ LET id == extractPlaylistIdFromUrl(url)
       IN  IF id = Null
           THEN /\ lookupOutcome' = InvalidUrlError
                /\ lpc' = "threw"
                /\ UNCHANGED playlistId
           ELSE /\ playlistId' = id
                /\ lpc' = "byId"
                /\ UNCHANGED lookupOutcome
    /\ UNCHANGED <<url, idRequests, idResponses>>
    /\ UNCHANGED exceptLookup

\* getPlaylistById issues GET /playlists/{playlistId}
IssueGet ==
    /\ lpc = "byId"
    /\ idRequests' = Append(idRequests, playlistId)
    /\ lpc' = "await"
    /\ UNCHANGED <<url, playlistId, idResponses, lookupOutcome>>
    /\ UNCHANGED exceptLookup

\* the request settles; the thrown 'No playlist data received' is caught by
\* the function's own catch, where it has no response property
GetSettles ==
    /\ lpc = "await"
    /\ \E r \in GetResponses :
          /\ idResponses' = Append(idResponses, r)
          /\ IF r # NoResponse /\ Is2xx(r.status) /\ r.hasData
             THEN /\ lookupOutcome' = PlaylistData
                  /\ lpc' = "returned"
             ELSE /\ lookupOutcome' =
                        IF r = NoResponse \/ Is2xx(r.status) THEN NetworkError
                        ELSE IF r.status = 404 THEN NotFoundError
                        ELSE FetchFailed(r.status)
                  /\ lpc' = "threw"
    /\ UNCHANGED <<url, playlistId, idRequests>>
    /\ UNCHANGED exceptLookup

(***************************************************************************)
(* Authentication: loadSpotifyConfig, getAccessToken.                      *)
(***************************************************************************)
\* the values of a credential variable of the environment
EnvValues == {Null, <<>>, <<"c">>, <<"s">>}

\* the access_token field of a response body: absent, empty or a token
TokenFields == {Null, <<>>, <<"t">>, <<"u">>}

\* a response to the credential exchange; NoTokenResponse when the request
\* got none
NoTokenResponse == [status |-> 0, access_token |-> Null]

TokenResponses ==
    [status : {200, 201, 400, 401, 500}, access_token : TokenFields]
      \cup {NoTokenResponse}

\* the outcomes of getAccessToken: the token, or the error thrown
NoAuthOutcome == [kind |-> "none", status |-> 0, token |-> Null]
Token(t) == [kind |-> "token", status |-> 0, token |-> t]
ConfigError == [kind |-> "config", status |-> 0, token |-> Null]
AuthFailed(status) == [kind |-> "authFailed", status |-> status, token |-> Null]
AuthNetworkError == [kind |-> "network", status |-> 0, token |-> Null]

AuthIdle ==
    /\ clientId = Null
    /\ clientSecret = Null
    /\ tokenRequests = 0
    /\ tokenResponses = <<>>
    /\ authOutcome = NoAuthOutcome
    /\ tpc = "idle"

AuthInit ==
    /\ clientId \in EnvValues
    /\ clientSecret \in EnvValues
    /\ tokenRequests = 0
    /\ tokenResponses = <<>>
    /\ authOutcome = NoAuthOutcome
    /\ tpc = "start"

\* getAccessToken up to the await of axios.post; loadSpotifyConfig throws
\* outside the try block
PostCredentials ==
    /\ tpc = "start"
    /\ IF ~Truthy(clientId) \/ ~Truthy(clientSecret)
       THEN /\ authOutcome' = ConfigError
            /\ tpc' = "threw"
            /\ UNCHANGED tokenRequests
       ELSE /\ tokenRequests' = tokenRequests + 1
            /\ tpc' = "await"
            /\ UNCHANGED authOutcome
    /\ UNCHANGED <<clientId, clientSecret, tokenResponses>>
    /\ UNCHANGED exceptAuth

\* the exchange settles; the thrown 'No access token received from Spotify'
\* is caught by the function's own catch, where it has no response property
PostCredentialsSettles ==
    /\ tpc = "await"
    /\ \E r \in TokenResponses :
          /\ tokenResponses' = Append(tokenResponses, r)
          /\ IF r # NoTokenResponse /\ Is2xx(r.status) /\ Truthy(r.access_token)
             THEN /\ authOutcome' = Token(r.access_token)
                  /\ tpc' = "returned"
             ELSE /\ authOutcome' =
                        IF r = NoTokenResponse \/ Is2xx(r.status)
                        THEN AuthNetworkError
                        ELSE AuthFailed(r.status)
                  /\ tpc' = "threw"
    /\ UNCHANGED <<clientId, clientSecret, tokenRequests>>
    /\ UNCHANGED exceptAuth

(***************************************************************************)
(* Disambiguation: selectPlaylistFromList, promptUserSelection.            *)
(***************************************************************************)
\* the playlists of a list, by ID
CandidateIds == {<<"p">>, <<"q">>, <<"r">>}

\* the lines a user may enter at the prompt
Answers ==
    {<<>>, <<"1">>, <<"2">>, <<"3">>, <<"4">>, <<"0">>, <<"-", "1">>,
     <<" ", "2", " ">>, <<"2", "z">>, <<"z", "2">>, <<"z">>,
     <<"1", ".", "5">>, <<"1", "0">>, <<"0", "2">>}

SelectIdle ==
    /\ candidates = <<>>
    /\ answer = Null
    /\ selectedPlaylist = Null
    /\ questions = 0
    /\ qpc = "idle"

SelectInit ==
    /\ candidates \in SeqsUpTo(CandidateIds, MaxCandidates)
    /\ answer = Null
    /\ selectedPlaylist = Null
    /\ questions = 0
    /\ qpc = "start"

\* selectPlaylistFromList up to the question of promptUserSelection
SelectStart ==
    /\ qpc = "start"
    /\ IF Len(candidates) = 0
       THEN /\ qpc' = "threw"
            /\ UNCHANGED <<selectedPlaylist, questions>>
       ELSE IF Len(candidates) = 1
       THEN /\ selectedPlaylist' = candidates[1]
            /\ qpc' = "returned"
            /\ UNCHANGED questions
       ELSE /\ questions' = questions + 1
            /\ qpc' = "prompt"
            /\ UNCHANGED selectedPlaylist
    /\ UNCHANGED <<candidates, answer>>
    /\ UNCHANGED exceptSelect

\* the callback of rl.question
AnswerEntered ==
    /\ qpc = "prompt"
    /\ \E a \in Answers :
          /\ answer' = a
          /\ LET selection == parseInt(Trim(a))
             IN  IF selection.nan \/ selection.v < 1 \/ selection.v > Len(candidates)
                 THEN /\ qpc' = "threw"
                      /\ UNCHANGED selectedPlaylist
                 ELSE /\ selectedPlaylist' = candidates[selection.v]
                      /\ qpc' = "returned"
    /\ UNCHANGED <<candidates, questions>>
    /\ UNCHANGED exceptSelect

(***************************************************************************)
(* The command-line tools: main of exportPlaylist, findTrackAlbums,        *)
(* findTrackAlbumsCSV (batch enrichment) and createPlaylistFromCSV, with   *)
(* their SIGINT handlers.  The batch tool runs processAllRecords above.    *)
(***************************************************************************)
Tools == {"export", "find", "batch", "create"}

HelpFlag == <<"-", "h">>
LongHelpFlag == <<"-", "-", "h", "e", "l", "p">>
NameFlag == <<"-", "n">>
UnknownFlag == <<"-", "x">>
PlainArg == <<"a">>

ArgTokens == {HelpFlag, LongHelpFlag, NameFlag, UnknownFlag, PlainArg}

\* parseArguments of exportPlaylist: the mode it returns
parseExportArguments(args) ==
    IF Len(args) = 0 THEN "help"
    ELSE IF args[1] = NameFlag THEN (IF Len(args) < 2 THEN "error" ELSE "run")
    ELSE IF args[1] \in {HelpFlag, LongHelpFlag} THEN "help"
    ELSE "error"

\* parseArguments of the tools with two positional arguments
parsePositionalArguments(args) ==
    IF Len(args) = 0 THEN "help"
    ELSE IF Len(args) < 2 THEN "error"
    ELSE IF args[1] \in {HelpFlag, LongHelpFlag} THEN "help"
    ELSE "run"

parseArguments(t, args) ==
    IF t = "export" THEN parseExportArguments(args) ELSE parsePositionalArguments(args)

\* checkEnvironment: no required variable is missing
checkEnvironment(env) ==
    Truthy(env.SPOTIFY_CLIENT_ID) /\ Truthy(env.SPOTIFY_CLIENT_SECRET)

Environments ==
    [SPOTIFY_CLIENT_ID : {Null, <<>>, <<"c">>},
     SPOTIFY_CLIENT_SECRET : {Null, <<>>, <<"s">>}]

requiredColumns == {"Track Name", "Artist Name", "Release Year", "Spotify Track ID"}

\* an input file: missing, not parsable, or a CSV with the columns of its
\* header and its records; NoFile for the tools that read none
NoFile == [kind |-> "none", columns |-> {}, records |-> <<>>]
MissingFile == [kind |-> "missing", columns |-> {}, records |-> <<>>]
GarbledFile == [kind |-> "garbled", columns |-> {}, records |-> <<>>]
CsvFile(columns, rows) == [kind |-> "csv", columns |-> columns, records |-> rows]

SampleRow == [TrackName |-> <<"y">>, ArtistName |-> <<"b">>,
              ReleaseYear |-> <<"3">>, SpotifyTrackID |-> <<"q">>]

\* a row without a track ID
RowWithoutId == [SampleRow EXCEPT !.SpotifyTrackID = <<>>]

\* the files that fail a static check, and two that pass
SmallFiles ==
    {MissingFile, GarbledFile, CsvFile(requiredColumns, <<>>),
     CsvFile(requiredColumns, <<SampleRow>>),
     CsvFile(requiredColumns, <<RowWithoutId>>)}
      \cup {CsvFile(requiredColumns \ {c}, <<SampleRow>>) : c \in requiredColumns}

\* readCSVFile returns the records
Readable(file) == file.kind = "csv"

\* validateInputCSV(records).valid
validateInputCSV(file) ==
    /\ Len(file.records) # 0
    /\ requiredColumns \subseteq file.columns

\* extractTrackIds(records).validCount
validCount(rows) ==
    Cardinality({k \in 1..Len(rows) :
        Truthy(rows[k].SpotifyTrackID) /\ Trim(rows[k].SpotifyTrackID) # <<>>})

\* the status of a process that has not exited
NoExit == -1

ToolIdle ==
    /\ tool = "none"
    /\ argv = <<>>
    /\ environment = [SPOTIFY_CLIENT_ID |-> Null, SPOTIFY_CLIENT_SECRET |-> Null]
    /\ inputFile = NoFile
    /\ network = <<>>
    /\ outputWrites = 0
    /\ exitCode = NoExit
    /\ mpc = "idle"

\* a tool is started: with any arguments and environment on a small file,
\* or with good arguments and environment on a CSV of rows
ToolInit ==
    /\ tool \in Tools
    /\ \/ /\ argv \in SeqsUpTo(ArgTokens, 2)
          /\ environment \in Environments
          /\ inputFile \in IF tool \in {"batch", "create"} THEN SmallFiles ELSE {NoFile}
       \/ /\ tool = "batch"
          /\ argv = <<PlainArg, PlainArg>>
          /\ environment = [SPOTIFY_CLIENT_ID |-> <<"c">>, SPOTIFY_CLIENT_SECRET |-> <<"s">>]
          /\ inputFile \in {CsvFile(requiredColumns, rows) : rows \in SeqsUpTo(Rows, MaxRows)}
    /\ network = <<>>
    /\ outputWrites = 0
    /\ exitCode = NoExit
    /\ mpc = "start"

\* process.exit(code)
Exit(code) ==
    /\ exitCode' = code
    /\ mpc' = "exited"

\* a main that authenticates before it reads the input file
RunStaticChecksAfterAuth ==
    /\ mpc = "start"
    /\ IF parseArguments(tool, argv) = "help"
       THEN Exit(0) /\ UNCHANGED network
       ELSE IF parseArguments(tool, argv) = "error" \/ ~checkEnvironment(environment)
       THEN Exit(1) /\ UNCHANGED network
       ELSE /\ network' = Append(network, IF tool = "create" THEN "authorize" ELSE "token")
            /\ mpc' = IF tool = "create" THEN "oauth" ELSE "auth"
            /\ UNCHANGED exitCode
    /\ UNCHANGED <<tool, argv, environment, inputFile, outputWrites>>
    /\ UNCHANGED exceptTool

\* main up to its first await: the arguments, the environment and, in the
\* batch and create tools, the input file are checked; then the credential
\* exchange (getAccessToken) or the OAuth flow (performOAuthFlow) begins
RunStaticChecks ==
    /\ mpc = "start"
    /\ IF parseArguments(tool, argv) = "help"
       THEN Exit(0) /\ UNCHANGED network
       ELSE IF parseArguments(tool, argv) = "error" \/ ~checkEnvironment(environment)
       THEN Exit(1) /\ UNCHANGED network
       ELSE IF tool \in {"batch", "create"}
               /\ (~Readable(inputFile) \/ ~validateInputCSV(inputFile))
       THEN Exit(1) /\ UNCHANGED network
       ELSE IF tool = "create" /\ validCount(inputFile.records) = 0
       THEN Exit(1) /\ UNCHANGED network
       ELSE /\ network' = Append(network, IF tool = "create" THEN "authorize" ELSE "token")
            /\ mpc' = IF tool = "create" THEN "oauth" ELSE "auth"
            /\ UNCHANGED exitCode
    /\ UNCHANGED <<tool, argv, environment, inputFile, outputWrites>>
    /\ UNCHANGED exceptTool

\* getAccessToken or performOAuthFlow throws: the catch of main exits
AuthFails ==
    /\ mpc \in {"auth", "oauth"}
    /\ Exit(1)
    /\ UNCHANGED <<tool, argv, environment, inputFile, network, outputWrites>>
    /\ UNCHANGED exceptTool

\* the export, find and create tools have their client and go on
AuthSucceeds ==
    /\ mpc \in {"auth", "oauth"}
    /\ tool # "batch"
    /\ mpc' = "work"
    /\ UNCHANGED <<tool, argv, environment, inputFile, network, outputWrites, exitCode>>
    /\ UNCHANGED exceptTool

\* the rest of the export, find and create tools: calls of the remote
\* service, then the process ends or the catch of main exits
FinishWork ==
    /\ mpc = "work"
    /\ network' = Append(network, "api")
    /\ \E code \in {0, 1} : Exit(code)
    /\ UNCHANGED <<tool, argv, environment, inputFile, outputWrites>>
    /\ UNCHANGED exceptTool

\* the batch tool has its client and calls processAllRecords(inputRecords)
StartProcessing ==
    /\ mpc = "auth"
    /\ tool = "batch"
    /\ bpc = "idle"
    /\ records' = inputFile.records
    /\ bpc' = "loop"
    /\ mpc' = "processing"
    /\ UNCHANGED <<tool, argv, environment, inputFile, network, outputWrites, exitCode>>
    /\ UNCHANGED <<enhancedRecords, recordIndex, processedCount, foundCount,
                   remoteCalls, responses, delays>>
    /\ UNCHANGED exceptToolBatch

\* processAllRecords has returned: writeEnhancedCSV up to its await
BeginWrite ==
    /\ mpc = "processing"
    /\ bpc = "returned"
    /\ IF Len(enhancedRecords) = 0
       THEN Exit(1)
       ELSE mpc' = "writing" /\ UNCHANGED exitCode
    /\ UNCHANGED <<tool, argv, environment, inputFile, network, outputWrites>>
    /\ UNCHANGED exceptTool

\* csvWriter.writeRecords settles: the file is written and main returns,
\* or the write fails and the catch of main exits
WriteSettles ==
    /\ mpc = "writing"
    /\ \/ outputWrites' = outputWrites + 1 /\ Exit(0)
       \/ UNCHANGED outputWrites /\ Exit(1)
    /\ UNCHANGED <<tool, argv, environment, inputFile, network>>
    /\ UNCHANGED exceptTool

\* a SIGINT handler that saves the rows processed so far
InterruptSavesProgress ==
    /\ mpc \in {"auth", "oauth", "work", "processing", "writing"}
    /\ mpc = "processing" => bpc \in {"await", "pace"}
    /\ Exit(0)
    /\ bpc' = IF bpc \in {"idle", "returned"} THEN bpc ELSE "killed"
    /\ outputWrites' = outputWrites + 1
    /\ UNCHANGED <<tool, argv, environment, inputFile, network>>
    /\ UNCHANGED <<records, enhancedRecords, recordIndex, processedCount, foundCount,
                   remoteCalls, responses, delays>>
    /\ UNCHANGED exceptToolBatch

\* SIGINT while main is at an await: the handler calls process.exit(0); a
\* write that is pending then may or may not have reached the file
Interrupt ==
    /\ mpc \in {"auth", "oauth", "work", "processing", "writing"}
    /\ mpc = "processing" => bpc \in {"await", "pace"}
    /\ Exit(0)
    /\ bpc' = IF bpc \in {"idle", "returned"} THEN bpc ELSE "killed"
    /\ IF mpc = "writing"
       THEN outputWrites' \in {outputWrites, outputWrites + 1}
       ELSE UNCHANGED outputWrites
    /\ UNCHANGED <<tool, argv, environment, inputFile, network>>
    /\ UNCHANGED <<records, enhancedRecords, recordIndex, processedCount, foundCount,
                   remoteCalls, responses, delays>>
    /\ UNCHANGED exceptToolBatch

(***************************************************************************)
(* main of exportPlaylist after its static checks (SpecExportTool): the    *)
(* credential exchange, getPlaylist, getFormattedPlaylistTracks (whose     *)
(* page loop is getPlaylistTracks above), validateTrackData and            *)
(* exportTracksToCSV.                                                      *)
(***************************************************************************)
Modes == {"name", "url", "id"}

NoPlaylist == [found |-> FALSE, name |-> Null, hasTracks |-> FALSE, total |-> 0]
Playlist(name, hasTracks, n) ==
    [found |-> TRUE, name |-> name, hasTracks |-> hasTracks, total |-> n]

\* the playlists getPlaylist can return
ResolvedPlaylists ==
    { Playlist(nm, TRUE, n) : nm \in {<<>>, <<"a">>}, n \in {0, 2} }
    \cup { Playlist(<<"a">>, FALSE, 0) }

\* the errors getPlaylist can throw in each mode
ResolveErrors(m) ==
    CASE m = "name" -> {"Playlist not found", "Invalid selection", "Playlist search failed"}
      [] m = "url"  -> {"Invalid Spotify playlist URL", "Playlist not found or not accessible"}
      [] m = "id"   -> {"Playlist not found or not accessible", "Network error during playlist fetch"}

\* playlist.tracks?.total || 0
trackCount(pl) == IF pl.hasTracks THEN pl.total ELSE 0

\* formatTracksForCsv, by the 'Spotify Track ID' column of each row
formatTracksForCsv(ts) == [k \in 1..Len(ts) |-> IF Truthy(ts[k].id) THEN ts[k].id ELSE <<>>]

\* validateTrackData(trackData).valid
validateTrackData(data) == Len(data) # 0

ExportToolIdle ==
    /\ mode = "none"
    /\ foundPlaylist = NoPlaylist
    /\ trackData = <<>>
    /\ exportError = "none"
    /\ csvFiles = <<>>
    /\ exportExit = NoExit
    /\ epc = "idle"

\* main awaits getAccessToken
ExportToolInit ==
    /\ mode \in Modes
    /\ foundPlaylist = NoPlaylist
    /\ trackData = <<>>
    /\ exportError = "none"
    /\ csvFiles = <<>>
    /\ exportExit = NoExit
    /\ epc = "auth"

\* the catch of main: process.exit(1)
ExportFailed(message) ==
    /\ exportError' = message
    /\ exportExit' = 1
    /\ epc' = "exited"

\* getAccessToken settles: main goes on to getPlaylist, or its catch exits
TokenSettles ==
    /\ epc = "auth"
    /\ \/ epc' = "resolve" /\ UNCHANGED <<exportError, exportExit>>
       \/ ExportFailed("Authentication failed")
    /\ UNCHANGED <<mode, foundPlaylist, trackData, csvFiles>>
    /\ UNCHANGED exceptExportTool

\* getPlaylist settles: an empty playlist ends the process with status 0,
\* any other starts getPlaylistTracks; an error goes to the catch of main
PlaylistSettles ==
    /\ epc = "resolve"
    /\ cpc = "idle"
    /\ \/ \E pl \in ResolvedPlaylists :
            /\ foundPlaylist' = pl
            /\ IF trackCount(pl) = 0
               THEN /\ exportExit' = 0
                    /\ epc' = "exited"
                    /\ UNCHANGED cpc
               ELSE /\ epc' = "tracks"
                    /\ cpc' = "fetch"
                    /\ UNCHANGED exportExit
            /\ UNCHANGED exportError
       \/ \E e \in ResolveErrors(mode) :
            /\ ExportFailed(e)
            /\ UNCHANGED <<foundPlaylist, cpc>>
    /\ UNCHANGED <<mode, trackData, csvFiles>>
    /\ UNCHANGED <<total, offset, allTracks, fetches, pages>>
    /\ UNCHANGED exceptExportToolCollect

\* a main that exports the tracks collected before the page that failed
TracksFailExportsPartial ==
    /\ epc = "tracks"
    /\ cpc = "threw"
    /\ trackData' = formatTracksForCsv(allTracks)
    /\ IF Len(trackData') = 0
       THEN ExportFailed("Track retrieval failed")
       ELSE /\ epc' = "export"
            /\ UNCHANGED <<exportError, exportExit>>
    /\ UNCHANGED <<mode, foundPlaylist, csvFiles>>
    /\ UNCHANGED exceptExportTool

\* getPlaylistTracks has thrown: the catch of main exits
TracksFail ==
    /\ epc = "tracks"
    /\ cpc = "threw"
    /\ ExportFailed("Track retrieval failed")
    /\ UNCHANGED <<mode, foundPlaylist, trackData, csvFiles>>
    /\ UNCHANGED exceptExportTool

\* getPlaylistTracks has returned: the tracks are formatted and validated,
\* and exportTracksToCSV runs up to the await of writeRecords
TracksReturn ==
    /\ epc = "tracks"
    /\ cpc = "returned"
    /\ trackData' = formatTracksForCsv(allTracks)
    /\ IF ~validateTrackData(trackData')
       THEN ExportFailed("Data validation failed: Track data array is empty")
       ELSE IF Len(trackData') = 0
       THEN ExportFailed("CSV export failed: No track data to export")
       ELSE IF ~Truthy(foundPlaylist.name)
       THEN ExportFailed("CSV export failed: Playlist name is required for filename generation")
       ELSE /\ epc' = "export"
            /\ UNCHANGED <<exportError, exportExit>>
    /\ UNCHANGED <<mode, foundPlaylist, csvFiles>>
    /\ UNCHANGED exceptExportTool

\* writeRecords settles: the file is written and main returns, or the
\* write fails and the catch of main exits
ExportSettles ==
    /\ epc = "export"
    /\ \/ /\ csvFiles' = Append(csvFiles, trackData)
          /\ exportExit' = 0
          /\ epc' = "exited"
          /\ UNCHANGED exportError
       \/ /\ ExportFailed("CSV export failed")
          /\ UNCHANGED csvFiles
    /\ UNCHANGED <<mode, foundPlaylist, trackData>>
    /\ UNCHANGED exceptExportTool

\* SIGINT while main is at an await: the handler calls process.exit(0); a
\* write that is pending then may or may not have reached the file
ExportInterrupt ==
    /\ \/ epc \in {"auth", "resolve", "export"}
       \/ epc = "tracks" /\ cpc = "await"
    /\ exportExit' = 0
    /\ epc' = "exited"
    /\ cpc' = IF cpc = "await" THEN "killed" ELSE cpc
    /\ IF epc = "export"
       THEN csvFiles' \in {csvFiles, Append(csvFiles, trackData)}
       ELSE UNCHANGED csvFiles
    /\ UNCHANGED <<mode, foundPlaylist, trackData, exportError>>
    /\ UNCHANGED <<total, offset, allTracks, fetches, pages>>
    /\ UNCHANGED exceptExportToolCollect

(***************************************************************************)
(* performOAuthFlow and startCallbackServer (SpecCallback).                *)
(*                                                                         *)
(* A request is the path and the code, error and state parameters of its   *)
(* URL, each a string or Null when the parameter is absent.  An await      *)
(* continues in the turn that settled the promise, so the step that        *)
(* settles the wait also runs performOAuthFlow up to its next await.       *)
(***************************************************************************)
CallbackPath == "/callback"

StateTokens == {<<"s">>, <<"t">>}

Request(path, code, error, state) ==
    [path |-> path, code |-> code, error |-> error, state |-> state]

\* the requests of the model: one to another path, callbacks with a code
\* and each of the state tokens or none, callbacks with an error (with and
\* without a code), and callbacks with neither or with an empty code
Requests ==
    { Request("/favicon.ico", Null, Null, Null) }
    \cup { Request(CallbackPath, <<"k">>, Null, st) : st \in {Null} \cup StateTokens }
    \cup { Request(CallbackPath, c, <<"e">>, <<"s">>) : c \in {Null, <<"k">>} }
    \cup { Request(CallbackPath, c, Null, <<"s">>) : c \in {Null, <<>>} }

Unsettled == [kind |-> "pending", value |-> Null]
Code(c) == [kind |-> "code", value |-> c]
OAuthError == [kind |-> "error", value |-> <<"O", "A", "u", "t", "h">>]
NoCodeError == [kind |-> "error", value |-> <<"N", "o", "C", "o", "d", "e">>]
ListenError == [kind |-> "error", value |-> <<"L", "i", "s", "t", "e", "n">>]
TimeoutError == [kind |-> "error", value |-> <<"T", "i", "m", "e", "o", "u", "t">>]

\* an entry of the log: a request with the status it was answered with, the
\* timer, or the 'error' event of the server
RequestEvent(r, status) ==
    [kind |-> "request", path |-> r.path, code |-> r.code, error |-> r.error,
     state |-> r.state, status |-> status]
TimeoutEvent ==
    [kind |-> "timeout", path |-> "", code |-> Null, error |-> Null,
     state |-> Null, status |-> 0]
ListenErrorEvent ==
    [kind |-> "listenError", path |-> "", code |-> Null, error |-> Null,
     state |-> Null, status |-> 0]

RequestsSeen == Cardinality({k \in 1..Len(events) : events[k].kind = "request"})

CallbackIdle ==
    /\ flowState = Null
    /\ events = <<>>
    /\ settleCalls = <<>>
    /\ waitOutcome = Unsettled
    /\ serverClosed = FALSE
    /\ timerPending = FALSE
    /\ exchanges = <<>>
    /\ opc = "idle"

\* performOAuthFlow up to the await of serverPromise
CallbackInit ==
    /\ flowState \in StateTokens
    /\ events = <<>>
    /\ settleCalls = <<>>
    /\ waitOutcome = Unsettled
    /\ serverClosed = FALSE
    /\ timerPending = TRUE
    /\ exchanges = <<>>
    /\ opc = "wait"

\* a promise that takes its latest settlement
SettleOverwrites(o) ==
    /\ settleCalls' = Append(settleCalls, o)
    /\ waitOutcome' = o
    /\ IF waitOutcome = Unsettled
       THEN IF o.kind = "code"
            THEN exchanges' = Append(exchanges, o.value) /\ opc' = "exchange"
            ELSE opc' = "threw" /\ UNCHANGED exchanges
       ELSE UNCHANGED <<exchanges, opc>>

\* resolve(code) or reject(error): only the first call settles the promise;
\* performOAuthFlow then calls exchangeCodeForToken or throws
Settle(o) ==
    /\ settleCalls' = Append(settleCalls, o)
    /\ IF waitOutcome = Unsettled
       THEN /\ waitOutcome' = o
            /\ IF o.kind = "code"
               THEN exchanges' = Append(exchanges, o.value) /\ opc' = "exchange"
               ELSE opc' = "threw" /\ UNCHANGED exchanges
       ELSE UNCHANGED <<waitOutcome, exchanges, opc>>

\* the request listener of the callback server
ReceiveRequest ==
    /\ opc \notin {"idle", "killed"}
    /\ RequestsSeen < MaxRequests
    /\ \A k \in 1..Len(events) : events[k].kind # "listenError"
    /\ \E r \in Requests :
        IF r.path = CallbackPath
        THEN /\ serverClosed' = TRUE
             /\ IF Truthy(r.error)
                THEN /\ events' = Append(events, RequestEvent(r, 400))
                     /\ Settle(OAuthError)
                ELSE IF Truthy(r.code)
                THEN /\ events' = Append(events, RequestEvent(r, 200))
                     /\ Settle(Code(r.code))
                ELSE /\ events' = Append(events, RequestEvent(r, 400))
                     /\ Settle(NoCodeError)
        ELSE /\ events' = Append(events, RequestEvent(r, 404))
             /\ UNCHANGED <<serverClosed, settleCalls, waitOutcome, exchanges, opc>>
    /\ UNCHANGED <<flowState, timerPending>>
    /\ UNCHANGED exceptCallback

\* the 'error' event of the server: the port cannot be listened on
ListenFails ==
    /\ opc = "wait"
    /\ events = <<>>
    /\ events' = Append(events, ListenErrorEvent)
    /\ Settle(ListenError)
    /\ UNCHANGED <<flowState, serverClosed, timerPending>>
    /\ UNCHANGED exceptCallback

\* the 5-minute timer fires
TimeoutFires ==
    /\ opc \notin {"idle", "killed"}
    /\ timerPending
    /\ timerPending' = FALSE
    /\ serverClosed' = TRUE
    /\ events' = Append(events, TimeoutEvent)
    /\ Settle(TimeoutError)
    /\ UNCHANGED flowState
    /\ UNCHANGED exceptCallback

\* exchangeCodeForToken settles: performOAuthFlow returns the client or
\* throws
ExchangeSettles ==
    /\ opc = "exchange"
    /\ opc' \in {"returned", "threw"}
    /\ UNCHANGED <<flowState, events, settleCalls, waitOutcome, serverClosed,
                   timerPending, exchanges>>
    /\ UNCHANGED exceptCallback

(***************************************************************************)
(* main of the create-playlist tool after its argument and environment     *)
(* checks (SpecCreateTool): extractTrackIds, performOAuthFlow (above),     *)
(* getCurrentUserProfile, createPlaylist, addTracksToPlaylist (above) and  *)
(* the summary.  After main has returned the process lives as long as a    *)
(* timer is armed.                                                         *)
(***************************************************************************)
RowOf(id) == [SampleRow EXCEPT !.SpotifyTrackID = id]

\* the 'Spotify Track ID' cells of the model
CsvIds == {<<"p">>, <<" ", "q">>, <<>>, <<" ">>}

\* a CSV of n records with distinct IDs, blank at the positions bad
LongCsv(n, bad) ==
    [k \in 1..n |-> RowOf(IF k \in bad THEN <<" ">> ELSE IdOf(k))]

CreateCsvs ==
    { [k \in 1..Len(ids) |-> RowOf(ids[k])] : ids \in SeqsUpTo(CsvIds, MaxRows) }
    \cup { LongCsv(101, bad) : bad \in SUBSET {1} }

NoValidation == [trackIds |-> <<>>, validCount |-> -1, totalRecords |-> -1]

\* an extractTrackIds that keeps every non-empty cell, blank ones included
extractTrackIdsKeepsBlank(rows) ==
    LET kept == SelectSeq(rows, LAMBDA row : Truthy(row.SpotifyTrackID))
    IN  [trackIds     |-> [k \in 1..Len(kept) |-> Trim(kept[k].SpotifyTrackID)],
         validCount   |-> Len(kept),
         totalRecords |-> Len(rows)]

\* extractTrackIds: the trimmed IDs of the records whose cell is a string
\* with a non-blank character
extractTrackIds(rows) ==
    LET kept == SelectSeq(rows, LAMBDA row :
                    Truthy(row.SpotifyTrackID) /\ Trim(row.SpotifyTrackID) # <<>>)
    IN  [trackIds     |-> [k \in 1..Len(kept) |-> Trim(kept[k].SpotifyTrackID)],
         validCount   |-> Len(kept),
         totalRecords |-> Len(rows)]

CreateToolIdle ==
    /\ csvRecords = <<>>
    /\ trackValidation = NoValidation
    /\ playlistsCreated = 0
    /\ summary = NoResult
    /\ createExit = NoExit
    /\ kpc = "idle"

CreateToolInit ==
    /\ csvRecords \in CreateCsvs
    /\ trackValidation = NoValidation
    /\ playlistsCreated = 0
    /\ summary = NoResult
    /\ createExit = NoExit
    /\ kpc = "start"

\* the variables of the OAuth flow and of addTracksToPlaylist that the end
\* of the process leaves as they are
callbackLog == <<flowState, events, settleCalls, waitOutcome, serverClosed, exchanges>>
addLog == <<trackIds, validTrackIds, skippedCount, successful, failed, batchStart,
            requests, chunkOutcomes, pauses, addResult>>

\* process.exit(code): the pending flow, loop and timer die with the process
CreateExit(code) ==
    /\ createExit' = code
    /\ kpc' = "exited"
    /\ opc' = IF opc = "idle" THEN opc ELSE "killed"
    /\ timerPending' = FALSE
    /\ apc' = IF apc \in {"idle", "returned"} THEN apc ELSE "killed"
    /\ UNCHANGED callbackLog
    /\ UNCHANGED addLog

\* main from readCSVFile to the await of performOAuthFlow, which runs up to
\* the await of its callback server
ExtractAndAuthorize ==
    /\ kpc = "start"
    /\ opc = "idle"
    /\ IF Len(csvRecords) = 0
       THEN CreateExit(1) /\ UNCHANGED trackValidation
       ELSE /\ trackValidation' = extractTrackIds(csvRecords)
            /\ IF trackValidation'.validCount = 0
               THEN CreateExit(1)
               ELSE /\ kpc' = "oauth"
                    /\ flowState' \in StateTokens
                    /\ timerPending' = TRUE
                    /\ opc' = "wait"
                    /\ UNCHANGED <<createExit, events, settleCalls, waitOutcome,
                                   serverClosed, exchanges>>
                    /\ UNCHANGED addVars
    /\ UNCHANGED <<csvRecords, playlistsCreated, summary>>
    /\ UNCHANGED exceptCreateToolCallbackAdd

\* performOAuthFlow has returned the client: getCurrentUserProfile is called
OAuthReturns ==
    /\ kpc = "oauth"
    /\ opc = "returned"
    /\ kpc' = "profile"
    /\ UNCHANGED <<csvRecords, trackValidation, playlistsCreated, summary, createExit>>
    /\ UNCHANGED exceptCreateTool

\* performOAuthFlow has thrown: the catch of main exits
OAuthThrows ==
    /\ kpc = "oauth"
    /\ opc = "threw"
    /\ CreateExit(1)
    /\ UNCHANGED <<csvRecords, trackValidation, playlistsCreated, summary>>
    /\ UNCHANGED exceptCreateToolCallbackAdd

\* getCurrentUserProfile settles: createPlaylist is called, or the catch of
\* main exits
ProfileSettles ==
    /\ kpc = "profile"
    /\ \/ /\ kpc' = "create"
          /\ UNCHANGED createExit
          /\ UNCHANGED callbackVars
          /\ UNCHANGED addVars
       \/ CreateExit(1)
    /\ UNCHANGED <<csvRecords, trackValidation, playlistsCreated, summary>>
    /\ UNCHANGED exceptCreateToolCallbackAdd

\* createPlaylist settles: addTracksToPlaylist is called with the IDs
\* extracted, or the catch of main exits
CreateSettles ==
    /\ kpc = "create"
    /\ apc = "idle"
    /\ \/ /\ playlistsCreated' = playlistsCreated + 1
          /\ kpc' = "adding"
          /\ trackIds' = trackValidation.trackIds
          /\ apc' = "start"
          /\ UNCHANGED createExit
          /\ UNCHANGED callbackVars
          /\ UNCHANGED <<validTrackIds, skippedCount, successful, failed, batchStart,
                         requests, chunkOutcomes, pauses, addResult>>
       \/ /\ CreateExit(1)
          /\ UNCHANGED playlistsCreated
    /\ UNCHANGED <<csvRecords, trackValidation, summary>>
    /\ UNCHANGED exceptCreateToolCallbackAdd

\* addTracksToPlaylist has returned: the summary is printed and main returns
PrintSummary ==
    /\ kpc = "adding"
    /\ apc = "returned"
    /\ summary' = addResult
    /\ kpc' = "done"
    /\ UNCHANGED <<csvRecords, trackValidation, playlistsCreated, createExit>>
    /\ UNCHANGED exceptCreateTool

\* nothing is left that keeps the event loop alive: the process ends
ProcessEnds ==
    /\ kpc = "done"
    /\ ~timerPending
    /\ CreateExit(0)
    /\ UNCHANGED <<csvRecords, trackValidation, playlistsCreated, summary>>
    /\ UNCHANGED exceptCreateToolCallbackAdd

\* SIGINT while main is at an await or has returned: process.exit(0)
CreateInterrupt ==
    /\ \/ kpc = "oauth" /\ opc \in {"wait", "exchange"}
       \/ kpc \in {"profile", "create", "done"}
       \/ kpc = "adding" /\ apc \in {"await", "pace"}
    /\ CreateExit(0)
    /\ UNCHANGED <<csvRecords, trackValidation, playlistsCreated, summary>>
    /\ UNCHANGED exceptCreateToolCallbackAdd

vars == <<finderVars, sortVars, batchVars, addVars, collectVars, searchVars,
          exportVars, lookupVars, authVars, selectVars, toolVars,
          exportToolVars, callbackVars, createToolVars>>

InitFinder ==
    FinderInit /\ SortIdle /\ BatchIdle /\ AddIdle /\ CollectIdle /\
    SearchIdle /\ ExportIdle /\ LookupIdle /\ AuthIdle /\ SelectIdle /\
    ToolIdle /\ ExportToolIdle /\ CallbackIdle /\ CreateToolIdle
NextFinder == FindEarliest
SpecFinder == InitFinder /\ [][NextFinder]_vars

InitSort ==
    SortInit /\ FinderIdle /\ BatchIdle /\ AddIdle /\ CollectIdle /\
    SearchIdle /\ ExportIdle /\ LookupIdle /\ AuthIdle /\ SelectIdle /\
    ToolIdle /\ ExportToolIdle /\ CallbackIdle /\ CreateToolIdle
NextSort == SortAlbums
SpecSort == InitSort /\ [][NextSort]_vars

InitBatch ==
    BatchInit /\ FinderIdle /\ SortIdle /\ AddIdle /\ CollectIdle /\
    SearchIdle /\ ExportIdle /\ LookupIdle /\ AuthIdle /\ SelectIdle /\
    ToolIdle /\ ExportToolIdle /\ CallbackIdle /\ CreateToolIdle
NextBatch ==
    \/ ProcessInvalidRecord
    \/ IssueSearch
    \/ SearchSettles
    \/ PaceRows
    \/ BatchReturn
SpecBatch == InitBatch /\ [][NextBatch]_vars

InitAdd ==
    AddInit /\ FinderIdle /\ SortIdle /\ BatchIdle /\ CollectIdle /\
    SearchIdle /\ ExportIdle /\ LookupIdle /\ AuthIdle /\ SelectIdle /\
    ToolIdle /\ ExportToolIdle /\ CallbackIdle /\ CreateToolIdle
NextAdd ==
    \/ AddStart
    \/ PostBatch
    \/ PostSettles
    \/ PaceBatches
    \/ AddReturn
SpecAdd == InitAdd /\ [][NextAdd]_vars

\* either operation that calls the remote service once per row or batch
InitOps == InitBatch \/ InitAdd
NextOps == NextBatch \/ NextAdd
SpecOps == InitOps /\ [][NextOps]_vars

InitCollect ==
    CollectInit /\ FinderIdle /\ SortIdle /\ BatchIdle /\ AddIdle /\
    SearchIdle /\ ExportIdle /\ LookupIdle /\ AuthIdle /\ SelectIdle /\
    ToolIdle /\ ExportToolIdle /\ CallbackIdle /\ CreateToolIdle
NextCollect ==
    \/ FetchPage
    \/ PageSettles
SpecCollect == InitCollect /\ [][NextCollect]_vars

InitSearch ==
    SearchInit /\ FinderIdle /\ SortIdle /\ BatchIdle /\ AddIdle /\
    CollectIdle /\ ExportIdle /\ LookupIdle /\ AuthIdle /\ SelectIdle /\
    ToolIdle /\ ExportToolIdle /\ CallbackIdle /\ CreateToolIdle
NextSearch ==
    \/ IssuePlaylistSearch
    \/ PlaylistSearchSettles
SpecSearch == InitSearch /\ [][NextSearch]_vars

InitExport ==
    ExportInit /\ FinderIdle /\ SortIdle /\ BatchIdle /\ AddIdle /\
    CollectIdle /\ SearchIdle /\ LookupIdle /\ AuthIdle /\ SelectIdle /\
    ToolIdle /\ ExportToolIdle /\ CallbackIdle /\ CreateToolIdle
NextExport ==
    \/ ExportStart
    \/ ProbeExists
    \/ ProbeFree
    \/ WriteRecords
    \/ WriteFails
    \/ ExportAgain
SpecExport == InitExport /\ [][NextExport]_vars

InitLookup ==
    LookupInit /\ FinderIdle /\ SortIdle /\ BatchIdle /\ AddIdle /\
    CollectIdle /\ SearchIdle /\ ExportIdle /\ AuthIdle /\ SelectIdle /\
    ToolIdle /\ ExportToolIdle /\ CallbackIdle /\ CreateToolIdle
NextLookup ==
    \/ ResolveUrl
    \/ IssueGet
    \/ GetSettles
SpecLookup == InitLookup /\ [][NextLookup]_vars

InitAuth ==
    AuthInit /\ FinderIdle /\ SortIdle /\ BatchIdle /\ AddIdle /\
    CollectIdle /\ SearchIdle /\ ExportIdle /\ LookupIdle /\ SelectIdle /\
    ToolIdle /\ ExportToolIdle /\ CallbackIdle /\ CreateToolIdle
NextAuth ==
    \/ PostCredentials
    \/ PostCredentialsSettles
SpecAuth == InitAuth /\ [][NextAuth]_vars

InitSelect ==
    SelectInit /\ FinderIdle /\ SortIdle /\ BatchIdle /\ AddIdle /\
    CollectIdle /\ SearchIdle /\ ExportIdle /\ LookupIdle /\ AuthIdle /\
    ToolIdle /\ ExportToolIdle /\ CallbackIdle /\ CreateToolIdle
NextSelect ==
    \/ SelectStart
    \/ AnswerEntered
SpecSelect == InitSelect /\ [][NextSelect]_vars

\* the operations that call the remote service in a loop
InitSequential == InitBatch \/ InitAdd \/ InitCollect
NextSequential == NextBatch \/ NextAdd \/ NextCollect
SpecSequential == InitSequential /\ [][NextSequential]_vars

\* a tool run, the batch tool with its processAllRecords
InitTool ==
    ToolInit /\ FinderIdle /\ SortIdle /\ BatchIdle /\ AddIdle /\
    CollectIdle /\ SearchIdle /\ ExportIdle /\ LookupIdle /\ AuthIdle /\
    SelectIdle /\ ExportToolIdle /\ CallbackIdle /\ CreateToolIdle
NextTool ==
    \/ RunStaticChecks
    \/ AuthFails
    \/ AuthSucceeds
    \/ FinishWork
    \/ StartProcessing
    \/ ProcessInvalidRecord
    \/ IssueSearch
    \/ SearchSettles
    \/ PaceRows
    \/ BatchReturn
    \/ BeginWrite
    \/ WriteSettles
    \/ Interrupt
SpecTool == InitTool /\ [][NextTool]_vars

InitExportTool ==
    ExportToolInit /\ FinderIdle /\ SortIdle /\ BatchIdle /\ AddIdle /\
    CollectIdle /\ SearchIdle /\ ExportIdle /\ LookupIdle /\ AuthIdle /\
    SelectIdle /\ ToolIdle /\ CallbackIdle /\ CreateToolIdle
NextExportTool ==
    \/ TokenSettles
    \/ PlaylistSettles
    \/ FetchPage
    \/ PageSettles
    \/ TracksFail
    \/ TracksReturn
    \/ ExportSettles
    \/ ExportInterrupt
SpecExportTool == InitExportTool /\ [][NextExportTool]_vars

InitCallback ==
    CallbackInit /\ FinderIdle /\ SortIdle /\ BatchIdle /\ AddIdle /\
    CollectIdle /\ SearchIdle /\ ExportIdle /\ LookupIdle /\ AuthIdle /\
    SelectIdle /\ ToolIdle /\ ExportToolIdle /\ CreateToolIdle
NextCallback ==
    \/ ReceiveRequest
    \/ ListenFails
    \/ TimeoutFires
    \/ ExchangeSettles
SpecCallback == InitCallback /\ [][NextCallback]_vars

InitCreateTool ==
    CreateToolInit /\ FinderIdle /\ SortIdle /\ BatchIdle /\ AddIdle /\
    CollectIdle /\ SearchIdle /\ ExportIdle /\ LookupIdle /\ AuthIdle /\
    SelectIdle /\ ToolIdle /\ ExportToolIdle /\ CallbackIdle
NextCreateTool ==
    \/ ExtractAndAuthorize
    \/ ReceiveRequest
    \/ ListenFails
    \/ TimeoutFires
    \/ ExchangeSettles
    \/ OAuthReturns
    \/ OAuthThrows
    \/ ProfileSettles
    \/ CreateSettles
    \/ AddStart
    \/ PostBatch
    \/ PostSettles
    \/ PaceBatches
    \/ AddReturn
    \/ PrintSummary
    \/ ProcessEnds
    \/ CreateInterrupt
SpecCreateTool == InitCreateTool /\ [][NextCreateTool]_vars

(***************************************************************************)
(* Properties.                                                             *)
(***************************************************************************)

\* C3: findEarliestBeforeYear never returns a candidate whose releaseYear is
\* >= the given year or is 0, for every year the batch engine can pass.
C3_NeverAtOrAfterGivenYear ==
    (fpc = "returned" /\ earliest # NoAlbum) =>
        /\ earliest.releaseYear < parseInt(yearField).v
        /\ earliest.releaseYear # 0

Keys(info) == {[y |-> info[i].releaseYear, n |-> info[i].albumName] : i \in 1..Len(info)}

HasKey(k, c) == c.releaseYear = k.y /\ c.albumName = k.n

\* the candidates with year and album name k, in the order they have in info
WithKey(info, k) == SelectSeq(info, LAMBDA c : HasKey(k, c))

\* the output is a permutation of the input in which candidates with equal
\* year and equal album name keep their input order
StablePermutation ==
    /\ Len(sortedInfo) = Len(albumInfo)
    /\ \A k \in Keys(albumInfo) \cup Keys(sortedInfo) :
            WithKey(sortedInfo, k) = WithKey(albumInfo, k)

\* C8 as stated: ascending year, ties ordered by albumName[i] <= albumName[j]
\* as strings; a stable permutation of the input.
C8_SortedByCodeUnitOrder ==
    spc = "sorted" =>
        /\ \A i, j \in 1..Len(sortedInfo) : i < j =>
              \/ sortedInfo[i].releaseYear < sortedInfo[j].releaseYear
              \/ /\ sortedInfo[i].releaseYear = sortedInfo[j].releaseYear
                 /\ CodeUnitLeq(sortedInfo[i].albumName, sortedInfo[j].albumName)
        /\ StablePermutation

\* C8 amended: ascending year, ties ordered by the locale-aware comparison
\* localeCompare(albumName[i], albumName[j]) <= 0; a stable permutation.
C8_SortedByLocaleCompare ==
    spc = "sorted" =>
        /\ \A i, j \in 1..Len(sortedInfo) : i < j =>
              \/ sortedInfo[i].releaseYear < sortedInfo[j].releaseYear
              \/ /\ sortedInfo[i].releaseYear = sortedInfo[j].releaseYear
                 /\ localeCompare(sortedInfo[i].albumName, sortedInfo[j].albumName) <= 0
        /\ StablePermutation

\* a sort that had to move candidates, with a tie on the year broken by name
\* and two candidates equal in year and name
C8_Witness ==
    /\ spc = "sorted"
    /\ Len(sortedInfo) = 3
    /\ sortedInfo # albumInfo
    /\ \E i, j \in 1..3 : i < j /\ sortedInfo[i].releaseYear = sortedInfo[j].releaseYear
                            /\ sortedInfo[i].albumName # sortedInfo[j].albumName
    /\ \E i, j \in 1..3 : i < j /\ sortedInfo[i].releaseYear = sortedInfo[j].releaseYear
                            /\ sortedInfo[i].albumName = sortedInfo[j].albumName
                            /\ sortedInfo[i].trackId # sortedInfo[j].trackId


NewFieldsEmpty(r) ==
    /\ r.NewTrackName = <<>>
    /\ r.NewAlbumName = <<>>
    /\ r.NewAlbumReleaseYear = <<>>
    /\ r.NewTrackSpotifyID = <<>>

RECURSIVE ValidRowIndexes(_, _)
ValidRowIndexes(rs, from) ==
    IF from >= Len(rs) THEN <<>>
    ELSE (IF InvalidData(rs[from + 1]) THEN <<>> ELSE <<from>>)
         \o ValidRowIndexes(rs, from + 1)

\* C4: a search that throws leaves its row with the four new fields empty
\* and never aborts the batch; every row is still searched once and gets
\* the result of its own search.
C4_RowErrorIsLocal ==
    /\ bpc # "threw"
    /\ \A k \in 1..Len(responses) :
        LET row == remoteCalls[k] + 1 IN
        /\ row <= Len(enhancedRecords)
        /\ IF responses[k].kind # "ok"
           THEN NewFieldsEmpty(enhancedRecords[row])
           ELSE enhancedRecords[row] =
                    createEnhancedRecord(records[row],
                        findEarliestAlbumBeforeYear(responses[k].items,
                            records[row].TrackName, records[row].ArtistName,
                            parseInt(records[row].ReleaseYear).v))
    /\ bpc = "returned" =>
        /\ remoteCalls = ValidRowIndexes(records, 0)
        /\ Len(responses) = Len(remoteCalls)
        /\ Len(enhancedRecords) = Len(records)

\* the first row's search failed and the second row was enriched
C4_Witness ==
    /\ bpc = "returned"
    /\ Len(responses) = 2
    /\ responses[1].kind = "network"
    /\ NewFieldsEmpty(enhancedRecords[1])
    /\ responses[2].kind = "ok"
    /\ enhancedRecords[2].NewAlbumName # <<>>


\* C2: the counts addTracks returns add up to the number of IDs it was given.
C2_CountsSumToInput ==
    apc = "returned" =>
        addResult.successful + addResult.failed + addResult.skipped = Len(trackIds)

CeilDiv(a, b) == (a + b - 1) \div b

RECURSIVE SumSizes(_, _)
\* the total size of the first k posts, counting those that succeeded
\* (ok = TRUE) or those that failed (ok = FALSE)
SumSizes(k, ok) ==
    IF k = 0 THEN 0
    ELSE SumSizes(k - 1, ok)
         + (IF (chunkOutcomes[k] = "ok") = ok THEN Len(requests[k]) ELSE 0)

RECURSIVE Flatten(_)
\* the concatenation of a sequence of sequences
Flatten(ss) == IF ss = <<>> THEN <<>> ELSE ss[1] \o Flatten(Tail(ss))

\* a non-empty string with a character that is not whitespace
StructurallyValid(id) ==
    IsString(id) /\ \E k \in 1..Len(id) : ~IsWhitespace(id[k])

\* the URIs of the valid IDs of trackIds, in list order
ValidUris ==
    LET valid == SelectSeq(trackIds, StructurallyValid)
    IN  [k \in 1..Len(valid) |-> TrackUri(valid[k])]

\* C9: a failed post adds its batch's size to failed and nothing to
\* successful, the batch is not posted again, and the later batches are
\* still posted and counted on their own outcome.
C9_FailedChunkCounted ==
    /\ failed = SumSizes(Len(chunkOutcomes), FALSE)
    /\ successful = SumSizes(Len(chunkOutcomes), TRUE)
    /\ \A k \in 1..Len(requests) :
          requests[k] = SubSeq(ValidUris, batchSize * (k - 1) + 1,
                               Min(batchSize * k, Len(ValidUris)))
    /\ (apc = "returned" /\ validTrackIds # <<>>) =>
          /\ Len(requests) = CeilDiv(Len(validTrackIds), batchSize)
          /\ Len(chunkOutcomes) = Len(requests)
          /\ addResult.failed = SumSizes(Len(chunkOutcomes), FALSE)
          /\ addResult.successful = SumSizes(Len(chunkOutcomes), TRUE)

\* three batches: the first failed, the later two were still posted
C9_Witness ==
    /\ apc = "returned"
    /\ Len(requests) = 3
    /\ chunkOutcomes[1] = "500"
    /\ chunkOutcomes[2] = "ok"
    /\ chunkOutcomes[3] = "network"
    /\ addResult.failed = Len(requests[1]) + Len(requests[3])
    /\ addResult.successful = 100

IsPrefix(p, q) == Len(p) <= Len(q) /\ \A k \in 1..Len(p) : p[k] = q[k]

\* C10: every valid ID is posted in exactly one request, in list order, as
\* spotify:track:<id>; no request has more than 100 URIs; no empty,
\* whitespace-only or non-string entry appears in a request.
C10_ValidIdsPostedOnce ==
    /\ \A k \in 1..Len(requests) : Len(requests[k]) \in 1..100
    /\ IsPrefix(Flatten(requests), ValidUris)
    /\ apc = "returned" => Flatten(requests) = ValidUris
    /\ \A k \in 1..Len(requests) : \A m \in 1..Len(requests[k]) :
          \A n \in 1..Len(trackIds) :
              ~StructurallyValid(trackIds[n]) => requests[k][m] # TrackUri(trackIds[n])

\* 201 entries, two of them invalid: batches of 100 and 99 URIs
C10_Witness ==
    /\ apc = "returned"
    /\ Len(trackIds) = 201
    /\ skippedCount = 2
    /\ Len(requests) = 2
    /\ Len(requests[1]) = 100
    /\ Len(requests[2]) = 99
    /\ requests[1][1] = TrackUri(IdOf(2))


StrictlyIncreasing(q) == \A a, b \in 1..Len(q) : a < b => q[a] < q[b]

\* C5 as stated: after a 401 no request is issued for a later row or batch
\* and the operation does not return normally.
C5_AbortsOn401 ==
    /\ \A k \in 1..Len(responses) :
          responses[k].kind = "401" => (Len(remoteCalls) = k /\ bpc # "returned")
    /\ \A k \in 1..Len(chunkOutcomes) :
          chunkOutcomes[k] = "401" => (Len(requests) = k /\ apc # "returned")

\* C5 amended: a 401 is not retried and does not abort the operation.  In
\* batch enrichment the row gets empty new fields, no row is searched
\* twice and every later valid row is still searched; in add-tracks the
\* batch is counted as failed, is not posted again and every later batch
\* is still posted; both operations return normally.
C5_401IsCountedNotAborting ==
    /\ bpc # "threw"
    /\ apc # "threw"
    /\ StrictlyIncreasing(remoteCalls)
    /\ \A k \in 1..Len(responses) :
          responses[k].kind = "401" =>
              /\ NewFieldsEmpty(enhancedRecords[remoteCalls[k] + 1])
              /\ bpc = "returned" => remoteCalls = ValidRowIndexes(records, 0)
    /\ \A k \in 1..Len(chunkOutcomes) :
          chunkOutcomes[k] = "401" =>
              /\ failed >= Len(requests[k])
              /\ \A m \in 1..Len(requests) : m # k => requests[m] # requests[k]
              /\ apc = "returned" =>
                    /\ Flatten(requests) = ValidUris
                    /\ addResult.failed = SumSizes(Len(chunkOutcomes), FALSE)

\* a batch whose first search got a 401 and whose second row was searched
\* and enriched all the same
C5_Witness ==
    /\ bpc = "returned"
    /\ Len(responses) = 2
    /\ responses[1].kind = "401"
    /\ remoteCalls = <<0, 1>>
    /\ responses[2].kind = "ok"
    /\ enhancedRecords[2].NewAlbumName # <<>>

\* max(1, ceil(T / 50))
FetchCount(T) == IF T <= 0 THEN 1 ELSE CeilDiv(T, limit)

RECURSIVE ValidTracksOf(_)
\* the tracks kept from a sequence of responses, in response order
ValidTracksOf(ps) ==
    IF ps = <<>> THEN <<>>
    ELSE validTracks(ps[1].items) \o ValidTracksOf(Tail(ps))

\* C6: with T the total of the first response, the page requests are those
\* at offsets 0, 50, 100, ... with limit 50, in ascending order, never more
\* than max(1, ceil(T/50)) and exactly that many when the collector
\* returns; the pages are concatenated in fetch order.
C6_PageFetches ==
    /\ \A k \in 1..Len(fetches) :
          fetches[k] = [offset |-> limit * (k - 1), limit |-> 50]
    /\ Len(pages) >= 1 /\ pages[1].kind = "ok" =>
          Len(fetches) <= FetchCount(pages[1].total)
    /\ cpc = "returned" =>
          /\ Len(fetches) = FetchCount(pages[1].total)
          /\ allTracks = ValidTracksOf(pages)

\* a playlist reporting total = 120: three fetches at offsets 0, 50, 100,
\* although the later responses reported other totals
C6_Witness ==
    /\ cpc = "returned"
    /\ pages[1].total = 120
    /\ Len(fetches) = 3
    /\ fetches[1].offset = 0 /\ fetches[2].offset = 50 /\ fetches[3].offset = 100
    /\ pages[2].total = 0
    /\ pages[3].total = 51
    /\ Len(allTracks) = 2

\* the name test and the owner test of the claim
PassesTests(pl) ==
    /\ ~pl.isNull
    /\ pl.name # Null
    /\ ToLowerCase(pl.name) = ToLowerCase(playlistName)
    /\ owner # Null =>
          (pl.owner_id # Null /\ ToLowerCase(pl.owner_id) = ToLowerCase(owner))

\* every returned playlist has the queried name, and the given owner,
\* up to case
OnlyExactMatches ==
    \A k \in 1..Len(exactMatches) :
        /\ ToLowerCase(exactMatches[k].name) = ToLowerCase(playlistName)
        /\ owner # Null =>
              ToLowerCase(exactMatches[k].owner_id) = ToLowerCase(owner)

\* C7 as stated: only exact matches are returned, and the result is the
\* subsequence of the remote results that pass the name and owner tests.
C7_ExactMatchesAll ==
    ppc = "returned" =>
        /\ OnlyExactMatches
        /\ exactMatches = SelectSeq(playlistItems, PassesTests)

\* C7 amended: only exact matches are returned, and the result is the
\* subsequence of the remote results that have a non-empty name and pass
\* the name and owner tests.
C7_ExactMatchesNonEmptyName ==
    ppc = "returned" =>
        /\ OnlyExactMatches
        /\ exactMatches =
              SelectSeq(playlistItems, LAMBDA pl : PassesTests(pl) /\ pl.name # <<>>)

\* a search with an owner that kept one of two results: the other one has
\* a name that only contains the query
C7_Witness ==
    /\ ppc = "returned"
    /\ playlistName = <<"A">>
    /\ owner = <<"u">>
    /\ Len(playlistItems) = 2
    /\ playlistItems[1].name = <<"a", "b">>
    /\ playlistItems[1].owner_id = <<"U">>
    /\ exactMatches = <<playlistItems[2]>>
    /\ playlistItems[2].name = <<"a">>

\* the sanitized base of the export
SanitizedBase == sanitizeFilename(baseFilename)

\* C11: the path generateUniqueFilename returns does not exist when it is
\* chosen; it is <base>.csv when that is unused and otherwise <base>_k.csv
\* for the smallest unused k >= 1 (base being the sanitized name); the loop
\* has run at most once per existing file, so it ends; and the files written
\* by exports in a row are pairwise distinct, so none overwrites an earlier one.
C11_UniqueFilename ==
    /\ counter <= Cardinality(files) + 1
    /\ xpc = "chosen" =>
          /\ filename \notin files
          /\ IF SanitizedBase \o extension \notin files
             THEN filename = SanitizedBase \o extension
             ELSE \E k \in 1..Cardinality(files) :
                     /\ filename = CopyName(SanitizedBase, k)
                     /\ \A j \in 1..(k - 1) : CopyName(SanitizedBase, j) \in files
    /\ \A m, n \in 1..Len(written) : m # n => written[m] # written[n]
    /\ \A m \in 1..Len(written) : written[m] \in files

\* the same name exported twice into a directory that already held the
\* plain name and its first copy
C11_Witness ==
    /\ xpc = "exported"
    /\ Len(written) = 2
    /\ written[1] = CopyName(SanitizedBase, 2)
    /\ written[2] = CopyName(SanitizedBase, 3)

MyPlaylistSanitized == <<"M", "y", "_", "P", "l", "a", "y", "l", "i", "s", "t">>

\* C12 as stated: with "My Playlist.csv" in the directory, the export of
\* "My Playlist" is given a numbered name My_Playlist_k.csv, k >= 1
C12_CopyWhenGivenNameExists ==
    (xpc = "chosen" /\ baseFilename = MyPlaylist /\ MyPlaylist \o extension \in files)
        => \E k \in 1..(Cardinality(files) + 1) :
              filename = CopyName(MyPlaylistSanitized, k)

\* C12 amended: the export of "My Playlist" is named My_Playlist.csv when no
\* file of that name exists (whether or not "My Playlist.csv" does); with
\* "My_Playlist.csv" in the directory it is named My_Playlist_k.csv for the
\* smallest k >= 1 of which no file exists; the name chosen is never that of
\* an existing file
C12_CopyWhenSanitizedNameExists ==
    (xpc = "chosen" /\ baseFilename = MyPlaylist) =>
        /\ filename \notin files
        /\ IF MyPlaylistSanitized \o extension \in files
           THEN \E k \in 1..Cardinality(files) :
                   /\ filename = CopyName(MyPlaylistSanitized, k)
                   /\ \A j \in 1..(k - 1) : CopyName(MyPlaylistSanitized, j) \in files
           ELSE filename = MyPlaylistSanitized \o extension

\* "My Playlist" exported into a directory holding My_Playlist.csv and
\* "My Playlist.csv": the name chosen is My_Playlist_1.csv
C12_Witness ==
    /\ xpc = "chosen"
    /\ baseFilename = MyPlaylist
    /\ MyPlaylist \o extension \in files
    /\ MyPlaylistSanitized \o extension \in files
    /\ filename = MyPlaylistSanitized \o <<"_", "1", ".", "c", "s", "v">>

RECURSIVE AlnumSuffix(_)
\* the longest suffix of s made of letters and digits
AlnumSuffix(s) ==
    IF s # <<>> /\ IsAlnum(s[Len(s)])
    THEN AlnumSuffix(SubSeq(s, 1, Len(s) - 1)) \o <<s[Len(s)]>> ELSE <<>>

EndsWith(s, t) == Len(t) <= Len(s) /\ SubSeq(s, Len(s) - Len(t) + 1, Len(s)) = t

\* u is of the web-link form .../playlist/<id> or the URI form
\* spotify:playlist:<id>, whatever stands before: it ends with an ID
\* preceded by one of the two patterns
InUrlForm(u) ==
    /\ AlnumSuffix(u) # <<>>
    /\ LET front == SubSeq(u, 1, Len(u) - Len(AlnumSuffix(u)))
       IN  EndsWith(front, HttpPattern) \/ EndsWith(front, UriPattern)

\* C13 as stated: an input of one of the two forms resolves to exactly its
\* ID and the by-ID fetch is issued with that ID; every other input fails
\* with the invalid-URL error and no request is issued
C13_OnlyTheTwoForms ==
    (url # Null /\ lpc # "byUrl") =>
        IF InUrlForm(url)
        THEN /\ playlistId = AlnumSuffix(url)
             /\ \A k \in 1..Len(idRequests) : idRequests[k] = playlistId
        ELSE /\ lookupOutcome = InvalidUrlError
             /\ idRequests = <<>>

\* s holds the literal followed by id, and id is not continued by a
\* letter or digit
HoldsId(s, literal, id) ==
    \E p \in 0..(Len(s) - Len(literal) - Len(id)) :
        /\ SubSeq(s, p + 1, p + Len(literal) + Len(id)) = literal \o id
        /\ p + Len(literal) + Len(id) < Len(s)
              => ~IsAlnum(s[p + Len(literal) + Len(id) + 1])

\* s holds the literal followed by a letter or digit
HoldsPattern(s, literal) ==
    \E c \in {s[k] : k \in 1..Len(s)} : IsAlnum(c) /\ Includes(s, literal \o <<c>>)

\* C13 amended: an input that holds open.spotify.com/playlist/<id> or
\* spotify:playlist:<id>, <id> a maximal non-empty run of letters and digits,
\* resolves to such an <id> (of the web-link pattern when the input holds
\* it) and every by-ID fetch is issued with that ID; the example URL
\* resolves to 37i9dQZF1DXcBWIGoYBM5M; an input that holds neither pattern,
\* such as "not-a-url", fails with the invalid-URL error and no request is
\* issued
C13_ResolvesHeldPattern ==
    (url # Null /\ lpc # "byUrl") =>
        /\ \A k \in 1..Len(idRequests) : idRequests[k] = playlistId
        /\ IF HoldsPattern(url, HttpPattern) \/ HoldsPattern(url, UriPattern)
           THEN /\ playlistId # <<>>
                /\ \A k \in 1..Len(playlistId) : IsAlnum(playlistId[k])
                /\ IF HoldsPattern(url, HttpPattern)
                   THEN HoldsId(url, HttpPattern, playlistId)
                   ELSE HoldsId(url, UriPattern, playlistId)
                /\ lookupOutcome # InvalidUrlError
           ELSE /\ lookupOutcome = InvalidUrlError
                /\ lpc = "threw"
                /\ playlistId = Null
                /\ idRequests = <<>>
        /\ url = <<"h", "t", "t", "p", "s", ":", "/", "/">> \o HttpPattern \o ExampleId
              => playlistId = ExampleId
        /\ url = NotAUrl => lookupOutcome = InvalidUrlError

\* the fetch was issued with the ID of a URI-form input that has a trail
C13_Witness ==
    /\ url = UriPattern \o <<"a", "B", "1", "-", "b">>
    /\ idRequests = <<(<<"a", "B", "1">>)>>
    /\ lpc = "await"

\* C16: a 404 is reported as playlist-not-found, every other non-2xx status
\* as an API failure that carries the status, and a network error is
\* reported only when no response was received, so never for a 2xx response
C16_NetworkOnlyWithoutResponse ==
    (lpc \in {"returned", "threw"} /\ idResponses # <<>>) =>
        LET r == idResponses[Len(idResponses)]
        IN  /\ (r # NoResponse /\ r.status = 404) => lookupOutcome = NotFoundError
            /\ (r # NoResponse /\ ~Is2xx(r.status) /\ r.status # 404)
                  => lookupOutcome = FetchFailed(r.status)
            /\ lookupOutcome = NetworkError => r = NoResponse

\* C15: getAccessToken fails with the authentication error when the
\* exchange returns a non-2xx response or a 2xx response without a token,
\* fails with the network error only when no response was received, and
\* returns exactly the token of a 2xx response that carries one
C15_AuthFailureClasses ==
    (tpc \in {"returned", "threw"} /\ tokenResponses # <<>>) =>
        LET r == tokenResponses[Len(tokenResponses)]
        IN  /\ (r # NoTokenResponse /\ ~Is2xx(r.status))
                  => authOutcome = AuthFailed(r.status)
            /\ (r # NoTokenResponse /\ Is2xx(r.status) /\ ~Truthy(r.access_token))
                  => authOutcome.kind = "authFailed"
            /\ authOutcome.kind = "network" => r = NoTokenResponse
            /\ (r # NoTokenResponse /\ Is2xx(r.status) /\ Truthy(r.access_token))
                  => authOutcome = Token(r.access_token)

\* the answer, trimmed, is a decimal numeral: an optional sign and digits
IsNumeral(s) ==
    LET t == Trim(s)
        u == IF t # <<>> /\ t[1] \in {"+", "-"} THEN Tail(t) ELSE t
    IN  u # <<>> /\ DigitsPrefix(u) = u

\* the number a numeral denotes
NumeralValue(s) ==
    LET t == Trim(s)
    IN  IF t[1] = "-" THEN 0 - DigitsValue(Tail(t))
        ELSE IF t[1] = "+" THEN DigitsValue(Tail(t))
        ELSE DigitsValue(t)

\* C14: one candidate is selected without a prompt; with n > 1 candidates
\* the k-th is selected only when the answer is a number k with 1 <= k <= n;
\* every other answer, an answer that merely starts with digits included,
\* fails and selects no playlist
C14_SelectionValidated ==
    /\ (qpc \in {"returned", "threw"} /\ Len(candidates) = 1) =>
          /\ qpc = "returned"
          /\ selectedPlaylist = candidates[1]
          /\ questions = 0
    /\ (qpc \in {"returned", "threw"} /\ Len(candidates) > 1) =>
          IF IsNumeral(answer) /\ NumeralValue(answer) \in 1..Len(candidates)
          THEN qpc = "returned" /\ selectedPlaylist = candidates[NumeralValue(answer)]
          ELSE qpc = "threw" /\ selectedPlaylist = Null

\* requests issued and not yet settled, per operation
PagesInFlight == Len(fetches) - Len(pages)
SearchesInFlight == Len(remoteCalls) - Len(responses)
PostsInFlight == Len(requests) - Len(chunkOutcomes)

\* C17: in pagination, batch enrichment and chunked track-adding at most one
\* request is in flight at any time: every request but the last issued has
\* settled, so request k+1 is issued only after request k has completed
C17_OneRequestInFlight ==
    /\ PagesInFlight \in {0, 1}
    /\ SearchesInFlight \in {0, 1}
    /\ PostsInFlight \in {0, 1}
    /\ PagesInFlight = 1 <=> cpc = "await"
    /\ SearchesInFlight = 1 <=> bpc = "await"
    /\ PostsInFlight = 1 <=> apc = "await"

\* the second page is requested after the first page has arrived
C17_Witness ==
    /\ Len(fetches) = 2
    /\ Len(pages) = 1
    /\ cpc = "await"

\* no request has left the process: none issued by main, none by the rows
NoNetworkAccess == network = <<>> /\ remoteCalls = <<>>

CredentialMissing ==
    \/ ~Truthy(environment.SPOTIFY_CLIENT_ID)
    \/ ~Truthy(environment.SPOTIFY_CLIENT_SECRET)

\* the arguments are rejected: too few of them, or an unknown option
ArgumentsMalformed == parseArguments(tool, argv) = "error"

\* the input CSV of the batch or create tool is unreadable, empty or lacks
\* a required column
InputCsvBad ==
    /\ tool \in {"batch", "create"}
    /\ \/ inputFile.kind # "csv"
       \/ inputFile.records = <<>>
       \/ ~(requiredColumns \subseteq inputFile.columns)

StaticFailure == CredentialMissing \/ ArgumentsMalformed \/ InputCsvBad

\* the invocation asks for the usage text: no arguments, or -h/--help
HelpRequested == parseArguments(tool, argv) = "help"

AllRowsTerminal ==
    /\ bpc = "returned"
    /\ records = inputFile.records
    /\ Len(enhancedRecords) = Len(records)

\* C19: the batch tool writes its output file at most once, and only after
\* every input row has its output row; a run that has aborted or was
\* interrupted before that has written nothing
C19_WrittenOnceAtTheEnd ==
    /\ outputWrites <= 1
    /\ outputWrites = 1 => (tool = "batch" /\ AllRowsTerminal)
    /\ (mpc = "exited" /\ ~AllRowsTerminal) => outputWrites = 0

\* the output of a two-row input has been written and the tool has ended
C19_Witness ==
    /\ tool = "batch"
    /\ Len(inputFile.records) = 2
    /\ outputWrites = 1
    /\ mpc = "exited"
    /\ exitCode = 0

\* the formatted search results that match the row locally
LocalMatches(items, row) ==
    formatAlbumInformation(
        searchTracksByNameAndArtist(items, row.TrackName, row.ArtistName))

\* the positions of the regular albums released in a year y, 0 < y < Y
RegularBefore(infos, Y) ==
    {c \in 1..Len(infos) :
        /\ ToLowerCase(infos[c].albumType) = AlbumStr
        /\ infos[c].releaseYear > 0
        /\ infos[c].releaseYear < Y}

\* C20: a valid row with release year Y whose search was answered gets the
\* regular album ('album', never a compilation or single) with
\* 0 < releaseYear < Y of smallest release year, ties broken by album name,
\* among the locally matching results; its four new fields are empty
\* exactly when there is no such candidate
C20_EarliestRegularAlbum ==
    \A k \in 1..Len(responses) :
        (responses[k].kind = "ok" /\ remoteCalls[k] + 1 <= Len(enhancedRecords)) =>
            LET row == records[remoteCalls[k] + 1]
                out == enhancedRecords[remoteCalls[k] + 1]
                Y == parseInt(row.ReleaseYear).v
                infos == LocalMatches(responses[k].items, row)
                cands == RegularBefore(infos, Y)
            IN  IF cands = {}
                THEN NewFieldsEmpty(out)
                ELSE /\ ~NewFieldsEmpty(out)
                     /\ \E c \in cands :
                           /\ \A d \in cands :
                                 \/ infos[c].releaseYear < infos[d].releaseYear
                                 \/ /\ infos[c].releaseYear = infos[d].releaseYear
                                    /\ localeCompare(infos[c].albumName,
                                                     infos[d].albumName) <= 0
                           /\ out.NewTrackName = infos[c].trackName
                           /\ out.NewAlbumName = infos[c].albumName
                           /\ out.NewAlbumReleaseYear = toString(infos[c].releaseYear)
                           /\ out.NewTrackSpotifyID = infos[c].trackId


\* a 'Release Year' that holds no integer to parse: after leading blanks
\* and an optional sign, the text does not start with a digit
UnparsableYear(s) ==
    LET t == TrimStart(s)
        u == IF t # <<>> /\ t[1] \in {"-", "+"} THEN Tail(t) ELSE t
    IN  u = <<>> \/ ~IsDigit(u[1])

MissingOrInvalid(row) ==
    \/ row.TrackName = <<>>
    \/ row.ArtistName = <<>>
    \/ UnparsableYear(row.ReleaseYear)

RemoteCallIssuedFor(j) == \E k \in 1..Len(remoteCalls) : remoteCalls[k] = j - 1

\* C21: a row without a track name, without an artist name or with a
\* release year that cannot be parsed is emitted with its four new fields
\* empty and without a remote call; the loop goes on: every row before the
\* loop index is emitted, and the valid ones among them were searched.
C21_InvalidRowSkipsSearch ==
    /\ bpc # "threw"
    /\ recordIndex <= Len(enhancedRecords)
    /\ \A j \in 1..Len(records) :
        IF MissingOrInvalid(records[j])
        THEN /\ ~RemoteCallIssuedFor(j)
             /\ j <= Len(enhancedRecords) => NewFieldsEmpty(enhancedRecords[j])
        ELSE j <= Len(enhancedRecords) => RemoteCallIssuedFor(j)

\* an invalid first row was emitted empty and the second row was searched
C21_Witness ==
    /\ bpc = "returned"
    /\ Len(records) = 2
    /\ records[1].TrackName # <<>>
    /\ records[1].ArtistName # <<>>
    /\ records[1].ReleaseYear = <<"z">>
    /\ NewFieldsEmpty(enhancedRecords[1])
    /\ remoteCalls = <<1>>
    /\ enhancedRecords[2].NewAlbumName # <<>>

\* an entry the collector is to drop: null, without a track, or with a
\* track that has no id
Dropped(item) == item.isNull \/ ~item.hasTrack \/ item.track.id \in {Null, <<>>}

RECURSIVE KeptTracks(_)
KeptTracks(items) ==
    IF items = <<>> THEN <<>>
    ELSE (IF Dropped(items[1]) THEN <<>> ELSE <<items[1].track>>)
         \o KeptTracks(Tail(items))

RECURSIVE KeptOfPages(_)
KeptOfPages(ps) ==
    IF ps = <<>> THEN <<>>
    ELSE KeptOfPages(SubSeq(ps, 1, Len(ps) - 1))
         \o (IF ps[Len(ps)].kind = "ok" THEN KeptTracks(ps[Len(ps)].items) ELSE <<>>)

RECURSIVE EntriesReceived(_)
EntriesReceived(ps) ==
    IF ps = <<>> THEN 0
    ELSE EntriesReceived(Tail(ps)) + Len(ps[1].items)

\* C22: the collector's result is the concatenation, in page order, of the
\* tracks of the entries that are not null, have a track and have an id;
\* it is no longer than the entries received; dropping is no error: the
\* collector throws only on a failed page, and an export whose every entry
\* was dropped does not end with a failure.
C22_DroppingIsNeverAnError ==
    /\ allTracks = KeptOfPages(pages)
    /\ Len(allTracks) <= EntriesReceived(pages)
    /\ cpc = "threw" => pages[Len(pages)].kind # "ok"
    /\ (epc = "exited" /\ cpc = "returned" /\ EntriesReceived(pages) > 0
            /\ allTracks = <<>>) => exportExit = 0

\* C23: the collected sequence never holds two tracks with the same id.
C23_NoDuplicateIds ==
    \A j, k \in 1..Len(allTracks) :
        j < k => allTracks[j].id # allTracks[k].id

\* the failures of the steps before the export: authentication, playlist
\* resolution and track retrieval
FatalBeforeExport ==
    {"Authentication failed", "Track retrieval failed"}
        \cup UNION {ResolveErrors(m) : m \in Modes}

\* C24: when authentication, playlist resolution or a page fetch fails, the
\* export tool exits with status 1 and has written no CSV file; a file that
\* is written holds the tracks of all the pages of a collection that
\* returned.
C24_FailureIsFatal ==
    /\ exportError \in FatalBeforeExport => exportExit = 1 /\ csvFiles = <<>>
    /\ foundPlaylist = NoPlaylist => csvFiles = <<>>
    /\ cpc = "threw" =>
          /\ csvFiles = <<>>
          /\ epc = "exited" => exportExit = 1 /\ exportError = "Track retrieval failed"
    /\ \A f \in 1..Len(csvFiles) :
          /\ cpc = "returned"
          /\ Len(pages) = FetchCount(pages[1].total)
          /\ Len(csvFiles[f]) = Len(KeptOfPages(pages))
          /\ \A k \in 1..Len(csvFiles[f]) : csvFiles[f][k] = KeptOfPages(pages)[k].id

\* the second page of a playlist failed after the first had brought a
\* track: the process has exited with status 1 and there is no file
C24_Witness ==
    /\ epc = "exited"
    /\ cpc = "threw"
    /\ Len(pages) = 2
    /\ allTracks # <<>>
    /\ pages[2].kind = "500"
    /\ exportExit = 1
    /\ csvFiles = <<>>

\* C25: the batch loop has awaited one delay per row before the row of a
\* pending remote call, so consecutive remote calls are separated by a
\* delay, and n rows give at most n - 1 delays (none after the last row);
\* addTracksToPlaylist has awaited one pause per chunk posted before the
\* pending one, and c chunks give c - 1 pauses when it returns.
C25_PacedBetweenCalls ==
    /\ delays <= IF Len(records) = 0 THEN 0 ELSE Len(records) - 1
    /\ bpc = "await" => delays = remoteCalls[Len(remoteCalls)]
    /\ \A k \in 2..Len(remoteCalls) : remoteCalls[k] - remoteCalls[k - 1] >= 1
    /\ bpc = "returned" /\ Len(records) > 0 => delays = Len(records) - 1
    /\ apc = "await" => pauses = Len(requests) - 1
    /\ apc = "returned" /\ Len(requests) > 0 => pauses = Len(requests) - 1
    /\ pauses <= Len(requests)

\* two rows were searched one after the other with one delay between them
C25_Witness ==
    /\ bpc = "returned"
    /\ remoteCalls = <<0, 1>>
    /\ Len(records) = 2
    /\ delays = 1

\* an event that is to settle the wait: a request to the callback path, the
\* timer, or a listener that could not start
Settles(e) == e.kind \in {"timeout", "listenError"} \/ e.path = CallbackPath

SettlingEvents == {k \in 1..Len(events) : Settles(events[k])}

FirstSettling == CHOOSE k \in SettlingEvents : \A m \in SettlingEvents : k <= m

\* what the wait is to yield when e is the first event to settle it
OutcomeOf(e) ==
    IF e.kind = "timeout" THEN TimeoutError
    ELSE IF e.kind = "listenError" THEN ListenError
    ELSE IF e.error \notin {Null, <<>>} THEN OAuthError
    ELSE IF e.code \notin {Null, <<>>} THEN Code(e.code)
    ELSE NoCodeError

\* C26: the wait is unsettled only while nothing has settled it and the
\* timer is armed; once an event has settled it, its outcome is that of the
\* first such event (the code of a callback with a code, a failure for a
\* callback with an error or without a code, the timeout for the timer)
\* whatever comes later; a request to another path is answered 404.
C26_WaitSettlesOnce ==
    /\ IF SettlingEvents = {}
       THEN waitOutcome = Unsettled /\ timerPending
       ELSE waitOutcome = OutcomeOf(events[FirstSettling])
    /\ \A k \in 1..Len(events) :
          (events[k].kind = "request" /\ events[k].path # CallbackPath) =>
              events[k].status = 404

\* a request to another path, then a callback with a code, then the timer:
\* the wait yielded the code
C26_Witness ==
    /\ Len(events) = 3
    /\ events[1].status = 404
    /\ events[2].kind = "request"
    /\ events[2].code = <<"k">>
    /\ events[3].kind = "timeout"
    /\ waitOutcome = Code(<<"k">>)
    /\ Len(settleCalls) = 2

\* C27: a code is handed to the token exchange only when the callback that
\* carried it had the state token of the flow.
C27_StateTokenEnforced ==
    \A k \in 1..Len(exchanges) :
        \E j \in 1..Len(events) :
            /\ events[j].kind = "request"
            /\ events[j].code = exchanges[k]
            /\ events[j].state = flowState

\* a cell that holds an ID: a string with a character that is not a blank
HoldsAnId(cell) == \E k \in 1..Len(cell) : cell[k] # " "

UsableIds(rows) == Cardinality({k \in 1..Len(rows) : HoldsAnId(rows[k].SpotifyTrackID)})

\* C29: in the create-playlist tool addTracksToPlaylist is given only
\* non-blank strings; a CSV without a usable ID ends the process with
\* status 1 before the OAuth flow starts and before a playlist is created;
\* a summary reports no skipped track, and its successful and failed counts
\* add up to the number of usable IDs of the CSV.
C29_SummaryCountsValidIds ==
    /\ \A k \in 1..Len(trackIds) : IsString(trackIds[k]) /\ HoldsAnId(trackIds[k])
    /\ (UsableIds(csvRecords) = 0 /\ kpc # "start") =>
          /\ kpc = "exited"
          /\ createExit = 1
          /\ flowState = Null
          /\ playlistsCreated = 0
    /\ summary # NoResult =>
          /\ summary.skipped = 0
          /\ summary.successful + summary.failed = UsableIds(csvRecords)

\* a CSV of 101 records, the first without an ID: the only chunk of 100 was
\* added and the summary was printed
C29_Witness ==
    /\ kpc = "done"
    /\ Len(csvRecords) = 101
    /\ csvRecords[1].SpotifyTrackID = <<" ">>
    /\ summary = [successful |-> 100, failed |-> 0, skipped |-> 0]

\* C30: once the callback wait has settled with a code or a callback error
\* the 5-minute timer is no longer pending, and none is pending when main
\* has printed the summary and returned.
C30_NoTimerLeftPending ==
    /\ waitOutcome.kind = "code" \/ waitOutcome \in {OAuthError, NoCodeError} => ~timerPending
    /\ kpc = "done" => ~timerPending

\* the base name of the first file name generateUniqueFilename tries
FirstBase == SubSeq(filename, 1, Len(filename) - Len(extension))

\* C28: the sanitized base name has at most 100 characters, none of the
\* characters < > : " / \ | ? * and no whitespace, no two adjacent
\* underscores, and no underscore at either end.
C28_SanitizedNameWellFormed ==
    (xpc = "probe" /\ counter = 1) =>
        /\ Len(FirstBase) <= 100
        /\ \A k \in 1..Len(FirstBase) :
              FirstBase[k] \notin {"<", ">", ":", "\"", "/", "\\", "|", "?", "*", " "}
        /\ \A k \in 1..(Len(FirstBase) - 1) :
              ~(FirstBase[k] = "_" /\ FirstBase[k + 1] = "_")
        /\ FirstBase # <<>> => FirstBase[1] # "_" /\ FirstBase[Len(FirstBase)] # "_"
====
